---- MODULE Spec2Model ----
(***************************************************************************)
(* A model of the streaming paths of gh-proxy-local: the upstream stream   *)
(* client (Client.ChatCompletionsStream) driving the three streaming       *)
(* handlers (AnthropicHandler.streamMessages, ResponsesHandler             *)
(* .streamResponses, ChatHandler.streamChatCompletions), and the           *)
(* non-streaming converter ConvertOpenAIResponseToAnthropic.               *)
(*                                                                         *)
(* A JSON object is a TLA+ record whose DOMAIN is the set of keys present. *)
(* A JSON value that is not an object where the code asserts one is the    *)
(* record NonObject.  One behaviour is one HTTP request.                   *)
(***************************************************************************)
EXTENDS Integers, Sequences, FiniteSets, TLC

VARIABLES
    handler,              \* which streaming handler serves the request
    pc,                   \* position of the request's goroutine
    lines,                \* upstream lines the reader has returned so far
    ctxCanceled,          \* r.Context() has been canceled (client went away)
    err,                  \* the error ChatCompletionsStream returned ("nil" if none)
    out,                  \* what the handler has written (and flushed) to w, in order
    contentBlockIndex,    \* anthropic.go:152
    hasTextContent,       \* anthropic.go:153
    toolCallsInProgress,  \* anthropic.go:154
    stopReason,           \* anthropic.go:155
    usageData,            \* anthropic.go:157, responses.go:309, chat handler :223
    fullText,             \* responses.go:351 fullText / chat handler :222 fullContent
    gen,                  \* arguments of the handler's trackGeneration call
    convIn,               \* the value a converter is called on
    convOut,              \* what the converter calls returned
    server,               \* main.go: cfg.APIKey, the telemetry switch
    request,              \* the HTTP request and the kind of writer serving it
    response,             \* what has been written to the http.ResponseWriter
    served,               \* which layers ran: middleware, CORS, route handler
    upstreamCalls,        \* calls the handler made on the Copilot client, with
                          \* what each returned
    tracked,              \* telemetry records the handler handed to langfuse
    langfuse,             \* part_000 Client: enabled, events, done
    worker,               \* part_000 Client.worker: position and batch
    sends,                \* the sendBatch goroutines started, with their state
    ingested,             \* events the ingestion API has received
    shutdown,             \* the goroutine calling Client.Shutdown
    clientCalls,          \* how many calls of each Client method were made
    now,                  \* time.Now(), in milliseconds
    creds,                \* *models.Credentials held by the caller
    credsFile,            \* the credentials file SaveCredentials writes
    modelsCache,          \* aliases.go Client.modelsCache / modelsCacheTime
    fetches,              \* upstream requests made by the last operation
    ret,                  \* what the last operation returned
    mu,                   \* Manager.mu: its writer and its readers
    reqs                  \* the requests calling the Manager concurrently

vars == <<handler, pc, lines, ctxCanceled, err, out, contentBlockIndex,
          hasTextContent, toolCallsInProgress, stopReason, usageData, fullText,
          gen, convIn, convOut, server, request, response, served,
          upstreamCalls, tracked, langfuse, worker, sends, ingested, shutdown,
          clientCalls, now, creds, credsFile, modelsCache, fetches, ret, mu,
          reqs>>

streamVars == <<handler, pc, lines, ctxCanceled, err, out, contentBlockIndex,
                hasTextContent, toolCallsInProgress, stopReason, usageData,
                fullText, gen>>

convVars == <<convIn, convOut>>

httpVars == <<server, request, response, served, upstreamCalls, tracked>>

telVars == <<langfuse, worker, sends, ingested, shutdown, clientCalls>>

copilotVars == <<now, creds, credsFile, modelsCache, fetches, ret, mu, reqs>>

svcVars == <<httpVars, telVars, copilotVars>>

(***************************************************************************)
(* Bounds                                                                  *)
(***************************************************************************)
\* Upstream lines read in one stream.
MaxLines == 3
\* Entries of one list of a request or an upstream result (content blocks,
\* messages, tools, tool calls).
MaxItems == 2

(***************************************************************************)
(* JSON helpers                                                            *)
(***************************************************************************)
HasKey(m, k) == k \in DOMAIN m

\* A nil map / empty JSON object.
EmptyObj == [k \in {} |-> TRUE]

\* A JSON value that is not an object (a string, a number, null).
NonObject == [nonobject |-> TRUE]

IsObject(v) == ~HasKey(v, "nonobject")

\* m[k].(string) with the comma-ok form: "" when absent.
StrOr(m, k) == IF HasKey(m, k) THEN m[k] ELSE ""

\* m[k].(map[string]interface{}) with the comma-ok form: nil map when absent.
ObjOr(m, k) == IF HasKey(m, k) /\ IsObject(m[k]) THEN m[k] ELSE EmptyObj

(***************************************************************************)
(* Upstream lines.  What resp.Body can deliver, one line per ReadBytes.    *)
(* A line is blank, or lacks the "data: " prefix, or is "data: [DONE]",    *)
(* or is "data: " followed by a payload that is or is not valid JSON.      *)
(***************************************************************************)
BlankLine == [kind |-> "blank"]
OtherLine == [kind |-> "other", json |-> FALSE]   \* e.g. ": keep-alive" or "event: x"
DoneLine == [kind |-> "done"]
BadJSONLine == [kind |-> "data", json |-> FALSE]
DataLine(c) == [kind |-> "data", json |-> TRUE, chunk |-> c]

\* usage objects as upstream reports them; prompt_tokens_details is optional
UsageFull ==
    [prompt_tokens |-> 3, completion_tokens |-> 2, total_tokens |-> 5,
     prompt_tokens_details |-> [cached_tokens |-> 1]]
UsageNoDetails ==
    [prompt_tokens |-> 4, completion_tokens |-> 3, total_tokens |-> 7]

\* chunks
UsageChunk == [choices |-> <<>>, usage |-> UsageFull]
TextChunk(s) == [choices |-> <<[delta |-> [content |-> s]]>>]
TextFinishChunk(s, fr) ==
    [choices |-> <<[delta |-> [content |-> s], finish_reason |-> fr]>>]
TextFinishUsageChunk(s, fr, u) ==
    [choices |-> <<[delta |-> [content |-> s], finish_reason |-> fr]>>,
     usage |-> u]
FinishChunk(fr) == [choices |-> <<[delta |-> [role |-> "assistant"], finish_reason |-> fr]>>]
NewToolChunk(i, id, name) ==
    [choices |-> <<[delta |-> [tool_calls |->
        <<[index |-> i, id |-> id, function |-> [name |-> name, arguments |-> ""]]>>]]>>]
ContToolChunk(i, args) ==
    [choices |-> <<[delta |-> [tool_calls |->
        <<[index |-> i, function |-> [arguments |-> args]]>>]]>>]
\* two tool calls opened by one chunk
TwoToolChunk ==
    [choices |-> <<[delta |-> [tool_calls |->
        <<[index |-> 0, id |-> "t1", function |-> [name |-> "f", arguments |-> ""]],
          [index |-> 1, id |-> "t2", function |-> [name |-> "g", arguments |-> ""]]>>]]>>]
\* the JSON text null: Unmarshal succeeds and leaves the map nil
NullChunk == [null |-> TRUE]
IsNull(c) == HasKey(c, "null")
\* valid JSON of an unexpected shape
BadChoiceChunk == [choices |-> <<NonObject>>]
NoIndexToolChunk ==
    [choices |-> <<[delta |-> [tool_calls |->
        <<[id |-> "t9", function |-> [name |-> "h"]]>>]]>>]
\* a chunk whose id and created are JSON null: the keys whose value is null
\* are listed under nullkeys
NullIdChunk ==
    [nullkeys |-> {"id", "created"},
     choices |-> <<[delta |-> [content |-> "Hel"]]>>]
\* a chunk that carries its own id and created
OwnIdChunk ==
    [id |-> "up-1", created |-> 7,
     choices |-> <<[delta |-> [content |-> "lo"], finish_reason |-> "stop"]>>,
     usage |-> UsageNoDetails]

\* a line that is a JSON chunk without the "data: " prefix
RawJSONLine == [kind |-> "other", json |-> TRUE, chunk |-> TextChunk("Hel")]

CommonLines ==
    {BlankLine, OtherLine, DoneLine, BadJSONLine,
     DataLine(UsageChunk),
     DataLine(TextChunk("Hel")),
     DataLine(TextFinishUsageChunk("lo", "stop", UsageNoDetails)),
     DataLine(TextFinishChunk("", "length")),
     DataLine(BadChoiceChunk)}

ToolLines ==
    {DataLine(FinishChunk("tool_calls")),
     DataLine(NewToolChunk(0, "t1", "f")),
     DataLine(NewToolChunk(1, "t2", "g")),
     DataLine(ContToolChunk(0, "{")),
     DataLine(ContToolChunk(1, "}")),
     DataLine(TwoToolChunk),
     DataLine(NoIndexToolChunk)}

Handlers == {"anthropic", "responses", "chat"}

\* the lines whose differences the handler can tell apart
LinesFor(h) ==
    CASE h = "anthropic" -> CommonLines \cup ToolLines \cup {RawJSONLine}
      [] h = "responses" -> CommonLines \cup {RawJSONLine}
      [] h = "chat" -> CommonLines \cup {DataLine(OwnIdChunk), DataLine(NullChunk),
                                         DataLine(NullIdChunk)}

(***************************************************************************)
(* Events written to the client                                            *)
(***************************************************************************)
MessageStart == [type |-> "message_start"]
TextBlockStart(i) == [type |-> "content_block_start", index |-> i, block |-> "text"]
ToolBlockStart(i, id, name) ==
    [type |-> "content_block_start", index |-> i, block |-> "tool_use",
     id |-> id, name |-> name]
TextDelta(i, s) ==
    [type |-> "content_block_delta", index |-> i, delta |-> "text_delta", text |-> s]
InputJSONDelta(i, s) ==
    [type |-> "content_block_delta", index |-> i, delta |-> "input_json_delta",
     partial_json |-> s]
BlockStop(i) == [type |-> "content_block_stop", index |-> i]
MessageDelta(sr, u) ==
    [type |-> "message_delta", stop_reason |-> sr,
     output_tokens |-> u.output_tokens,
     cache_read_input_tokens |-> u.cache_read_input_tokens]
MessageStop == [type |-> "message_stop"]

(***************************************************************************)
(* AnthropicHandler.streamMessages: the callback's body                    *)
(***************************************************************************)
\* anthropic.go:203-215: each counter is overwritten when its field is present
AnthropicUsage(u, chunk) ==
    IF HasKey(chunk, "usage") /\ IsObject(chunk.usage)
    THEN LET us == chunk.usage
             pd == ObjOr(us, "prompt_tokens_details")
         IN [input_tokens |->
                 IF HasKey(us, "prompt_tokens") THEN us.prompt_tokens
                 ELSE u.input_tokens,
             output_tokens |->
                 IF HasKey(us, "completion_tokens") THEN us.completion_tokens
                 ELSE u.output_tokens,
             cache_read_input_tokens |->
                 IF HasKey(pd, "cached_tokens") THEN pd.cached_tokens
                 ELSE u.cache_read_input_tokens]
    ELSE u

\* NextStopReason as it would be if every chunk's finish_reason were mapped
\* afresh (used to test that the properties read NextStopReason)
NextStopReasonMapped(stop, finishReason) ==
    IF finishReason = "tool_calls" THEN "tool_use" ELSE "end_turn"

\* anthropic.go:223-225: tool_calls sets the stop reason, nothing resets it
NextStopReason(stop, finishReason) ==
    IF finishReason = "tool_calls" THEN "tool_use" ELSE stop

\* EmitsText as it would be without the emptiness test
EmitsTextAlways(content) == TRUE

\* anthropic.go:228: a text delta is emitted for a non-empty string only
EmitsText(content) == content # ""

\* HasDataPrefix as it would be if the prefix were not required
HasDataPrefixAlways(line) == TRUE

\* anthropic.go:193, responses.go:355: strings.HasPrefix(line, "data: ")
HasDataPrefix(line) == line.kind \in {"data", "done"}

\* anthropic.go:193-201, responses.go:355-363: the lines the callback returns
\* on before it looks at a chunk: no "data: " prefix, the [DONE] sentinel, or
\* a payload json.Unmarshal rejects
Ignored(line) == ~HasDataPrefix(line) \/ line.kind = "done" \/ ~line.json

\* anthropic.go:243-290: one entry of delta.tool_calls.  st is the part of the
\* accumulator the loop changes: [idx, tcip, out, panicked].
ToolCallStep(st, tc, hasText) ==
    IF ~IsObject(tc) \/ ~HasKey(tc, "index")
    THEN [st EXCEPT !.panicked = TRUE]     \* tc.(map) / tcMap["index"].(float64)
    ELSE
      LET tcIndex == tc.index
          tcID == StrOr(tc, "id")
          tcFunc == ObjOr(tc, "function")
      IN IF tcID # ""
         THEN LET close == hasText \/ DOMAIN st.tcip # {}
                  out1 == IF close THEN Append(st.out, BlockStop(st.idx)) ELSE st.out
                  idx1 == IF close THEN st.idx + 1 ELSE st.idx
                  funcName == StrOr(tcFunc, "name")
              IN [idx |-> idx1,
                  tcip |-> (tcIndex :> [id |-> tcID, name |-> funcName, arguments |-> ""])
                           @@ st.tcip,
                  out |-> Append(out1, ToolBlockStart(idx1, tcID, funcName)),
                  panicked |-> FALSE]
         ELSE IF tcIndex \in DOMAIN st.tcip
              THEN LET args == StrOr(tcFunc, "arguments")
                   IN IF args # ""
                      THEN [st EXCEPT
                              !.tcip[tcIndex].arguments = @ \o args,
                              !.out = Append(@, InputJSONDelta(st.idx, args))]
                      ELSE st
              ELSE st

RECURSIVE ToolCallsLoop(_, _, _, _)
ToolCallsLoop(st, tcs, i, hasText) ==
    IF i > Len(tcs) \/ st.panicked THEN st
    ELSE ToolCallsLoop(ToolCallStep(st, tcs[i], hasText), tcs, i + 1, hasText)

\* anthropic.go:192-297: the callback on one non-blank line.  acc is the whole
\* accumulator [idx, hasText, tcip, stop, usage, out, panicked].
AnthropicCallback(acc, line) ==
    IF Ignored(line) THEN acc
    ELSE
      LET chunk == line.chunk
          usage1 == AnthropicUsage(acc.usage, chunk)
          choices == IF HasKey(chunk, "choices") THEN chunk.choices ELSE <<>>
      IN IF Len(choices) = 0 THEN [acc EXCEPT !.usage = usage1]
         ELSE IF ~IsObject(choices[1])
         THEN [acc EXCEPT !.usage = usage1, !.panicked = TRUE]
         ELSE
           LET choice == choices[1]
               delta == ObjOr(choice, "delta")
               finishReason == StrOr(choice, "finish_reason")
               stop1 == NextStopReason(acc.stop, finishReason)
               content == StrOr(delta, "content")
               hasText1 == acc.hasText \/ EmitsText(content)
               out1 == IF EmitsText(content)
                       THEN Append(acc.out, TextDelta(acc.idx, content))
                       ELSE acc.out
               toolCalls == IF HasKey(delta, "tool_calls") THEN delta.tool_calls ELSE <<>>
               st == ToolCallsLoop([idx |-> acc.idx, tcip |-> acc.tcip, out |-> out1,
                                    panicked |-> FALSE], toolCalls, 1, hasText1)
           IN [idx |-> st.idx, hasText |-> hasText1, tcip |-> st.tcip, stop |-> stop1,
               usage |-> usage1, out |-> st.out, panicked |-> st.panicked]

(***************************************************************************)
(* ResponsesHandler.streamResponses: the callback's body                   *)
(***************************************************************************)
ResponseCreated == [type |-> "response.created"]
OutputItemAdded == [type |-> "response.output_item.added"]
ContentPartAdded == [type |-> "response.content_part.added"]
OutputTextDelta(s) == [type |-> "response.output_text.delta", delta |-> s]
OutputTextDone(s) == [type |-> "response.output_text.done", text |-> s]
ContentPartDone(s) == [type |-> "response.content_part.done", text |-> s]
OutputItemDone(s) == [type |-> "response.output_item.done", text |-> s]
ResponseCompleted(s, u) ==
    [type |-> "response.completed", text |-> s, usage |-> u]

\* responses.go:365-380
ResponsesUsage(u, chunk) ==
    IF HasKey(chunk, "usage") /\ IsObject(chunk.usage)
    THEN LET us == chunk.usage
             pd == ObjOr(us, "prompt_tokens_details")
         IN [input_tokens |->
                 IF HasKey(us, "prompt_tokens") THEN us.prompt_tokens
                 ELSE u.input_tokens,
             output_tokens |->
                 IF HasKey(us, "completion_tokens") THEN us.completion_tokens
                 ELSE u.output_tokens,
             total_tokens |->
                 IF HasKey(us, "total_tokens") THEN us.total_tokens
                 ELSE u.total_tokens,
             cached_tokens |->
                 IF HasKey(pd, "cached_tokens") THEN pd.cached_tokens
                 ELSE u.cached_tokens]
    ELSE u

\* WriteString as it would be if it replaced the buffer's content
WriteStringReplaces(b, s) == s

\* responses.go:389: strings.Builder.WriteString appends to the buffer
WriteString(b, s) == b \o s

\* responses.go:354-401: acc is [usage, text, out, panicked]
ResponsesCallback(acc, line) ==
    IF Ignored(line) THEN acc
    ELSE
      LET chunk == line.chunk
          usage1 == ResponsesUsage(acc.usage, chunk)
          choices == IF HasKey(chunk, "choices") THEN chunk.choices ELSE <<>>
      IN IF Len(choices) = 0 THEN [acc EXCEPT !.usage = usage1]
         ELSE IF ~IsObject(choices[1])
         THEN [acc EXCEPT !.usage = usage1, !.panicked = TRUE]
         ELSE
           LET delta == ObjOr(choices[1], "delta")
               content == StrOr(delta, "content")
           IN IF content # ""
              THEN [usage |-> usage1, text |-> WriteString(acc.text, content),
                    out |-> Append(acc.out, OutputTextDelta(content)),
                    panicked |-> FALSE]
              ELSE [acc EXCEPT !.usage = usage1]

(***************************************************************************)
(* ChatHandler.streamChatCompletions: the callback's body                  *)
(***************************************************************************)
\* uuid.New().String() and time.Now().Unix(), taken once before the stream
RequestID == "chatcmpl-req"
Created == 1

DoneEvent == [type |-> "[DONE]"]
DataEvent(c) == [type |-> "data", chunk |-> c]

\* a *langfuse.UsageData that is nil
NilUsage == [nil |-> TRUE]

\* chunkData[k] == nil: the key is absent or its value is JSON null
IsNilKey(chunk, k) ==
    ~HasKey(chunk, k) \/ (HasKey(chunk, "nullkeys") /\ k \in chunk.nullkeys)

\* chunkData[k] = v
SetKey(chunk, k, v) ==
    LET set == (k :> v) @@ chunk
    IN  IF HasKey(set, "nullkeys") THEN [set EXCEPT !.nullkeys = @ \ {k}] ELSE set

\* part_003:240-245
InjectIdCreatedAlways(chunk) ==
    SetKey(SetKey(chunk, "id", RequestID), "created", Created)
InjectIdCreated(chunk) ==
    LET c1 == IF IsNilKey(chunk, "id") THEN SetKey(chunk, "id", RequestID)
              ELSE chunk
    IN  IF IsNilKey(c1, "created") THEN SetKey(c1, "created", Created) ELSE c1

\* part_003:259-270: a fresh UsageData per usage object
ChatUsage(u, chunk) ==
    IF HasKey(chunk, "usage") /\ IsObject(chunk.usage)
    THEN LET us == chunk.usage
         IN [PromptTokens |->
                 IF HasKey(us, "prompt_tokens") THEN us.prompt_tokens ELSE 0,
             CompletionTokens |->
                 IF HasKey(us, "completion_tokens") THEN us.completion_tokens ELSE 0,
             TotalTokens |->
                 IF HasKey(us, "total_tokens") THEN us.total_tokens ELSE 0]
    ELSE u

\* part_003:248-256
ChatContent(chunk) ==
    LET choices == IF HasKey(chunk, "choices") THEN chunk.choices ELSE <<>>
    IN IF Len(choices) > 0 /\ IsObject(choices[1])
       THEN StrOr(ObjOr(choices[1], "delta"), "content")
       ELSE ""

\* part_003:225-279: acc is [usage, text, out, panicked].  For the payload null
\* chunkData is a nil map and the assignment at :241 panics.
ChatCallback(acc, line) ==
    IF line.kind = "done" THEN [acc EXCEPT !.out = Append(@, DoneEvent)]
    ELSE IF line.kind # "data" \/ ~line.json THEN acc
    ELSE IF IsNull(line.chunk) THEN [acc EXCEPT !.panicked = TRUE]
    ELSE [usage |-> ChatUsage(acc.usage, line.chunk),
          text |-> acc.text \o ChatContent(line.chunk),
          out |-> Append(acc.out, DataEvent(InjectIdCreated(line.chunk))),
          panicked |-> FALSE]

(***************************************************************************)
(* The request: Init and the steps of the handler's goroutine              *)
(***************************************************************************)
ZeroAnthropicUsage ==
    [input_tokens |-> 0, output_tokens |-> 0, cache_read_input_tokens |-> 0]
ZeroResponsesUsage ==
    [input_tokens |-> 0, output_tokens |-> 0, total_tokens |-> 0, cached_tokens |-> 0]

NoGen == [called |-> FALSE]

ConvIdle == [idle |-> TRUE]

\* A part of the program that takes no part in the behaviours of a
\* specification keeps this value.
Unused == [unused |-> TRUE]

IdleHTTP ==
    /\ server = Unused
    /\ request = Unused
    /\ response = Unused
    /\ served = Unused
    /\ upstreamCalls = <<>>
    /\ tracked = <<>>

IdleTelemetry ==
    /\ langfuse = Unused
    /\ worker = Unused
    /\ sends = {}
    /\ ingested = {}
    /\ shutdown = Unused
    /\ clientCalls = Unused

IdleCopilot ==
    /\ now = 0
    /\ creds = Unused
    /\ credsFile = Unused
    /\ modelsCache = Unused
    /\ fetches = <<>>
    /\ ret = Unused
    /\ mu = Unused
    /\ reqs = <<>>

InitStream ==
    /\ handler \in Handlers
    /\ pc = "start"
    /\ lines = <<>>
    /\ ctxCanceled = FALSE
    /\ err = "nil"
    /\ out = <<>>
    /\ contentBlockIndex = 0
    /\ hasTextContent = FALSE
    /\ toolCallsInProgress = EmptyObj
    /\ stopReason = "end_turn"
    /\ usageData = CASE handler = "anthropic" -> ZeroAnthropicUsage
                     [] handler = "responses" -> ZeroResponsesUsage
                     [] handler = "chat" -> NilUsage
    /\ fullText = ""
    /\ gen = NoGen

Init ==
    /\ InitStream
    /\ convIn = ConvIdle
    /\ convOut = ConvIdle
    /\ IdleHTTP
    /\ IdleTelemetry
    /\ IdleCopilot

accUnchanged ==
    UNCHANGED <<contentBlockIndex, hasTextContent, toolCallsInProgress, stopReason,
                usageData, fullText>>

\* anthropic.go:140-189: headers, message_start, content_block_start(0, text)
AnthropicStart ==
    /\ handler = "anthropic" /\ pc = "start"
    /\ out' = <<MessageStart, TextBlockStart(contentBlockIndex)>>
    /\ pc' = "call"
    /\ accUnchanged
    /\ UNCHANGED <<handler, lines, ctxCanceled, err, gen, convVars, svcVars>>

\* responses.go:293-349
ResponsesStart ==
    /\ handler = "responses" /\ pc = "start"
    /\ out' = <<ResponseCreated, OutputItemAdded, ContentPartAdded>>
    /\ pc' = "call"
    /\ accUnchanged
    /\ UNCHANGED <<handler, lines, ctxCanceled, err, gen, convVars, svcVars>>

\* part_003:208-223: headers only, nothing is written yet
ChatStart ==
    /\ handler = "chat" /\ pc = "start"
    /\ pc' = "call"
    /\ accUnchanged
    /\ UNCHANGED <<handler, lines, ctxCanceled, err, out, gen, convVars, svcVars>>

\* The client disconnects: net/http cancels r.Context().
Cancel ==
    /\ pc \in {"call", "read"}
    /\ ~ctxCanceled
    /\ ctxCanceled' = TRUE
    /\ accUnchanged
    /\ UNCHANGED <<handler, pc, lines, err, out, gen, convVars, svcVars>>

\* aliases.go:284-341: ChatCompletionsStream returns before reading a line
ClientFail ==
    /\ pc = "call"
    /\ \E e \in {"failed to get credentials", "request failed", "API error"} :
          /\ ctxCanceled => e = "request failed"
          /\ err' = e
    /\ pc' = "end"
    /\ accUnchanged
    /\ UNCHANGED <<handler, lines, ctxCanceled, out, gen, convVars, svcVars>>

\* aliases.go:332-343: upstream answered 200, the read loop begins
ClientConnect ==
    /\ pc = "call"
    /\ ~ctxCanceled
    /\ pc' = "read"
    /\ accUnchanged
    /\ UNCHANGED <<handler, lines, ctxCanceled, err, out, gen, convVars, svcVars>>

\* aliases.go:345-356: a line that is empty after TrimSpace is skipped
ReadBlank ==
    /\ pc = "read"
    /\ Len(lines) < MaxLines
    /\ BlankLine \in LinesFor(handler)
    /\ lines' = Append(lines, BlankLine)
    /\ accUnchanged
    /\ UNCHANGED <<handler, pc, ctxCanceled, err, out, gen, convVars, svcVars>>

\* aliases.go:345-350: ReadBytes meets io.EOF
ReadEOF ==
    /\ pc = "read"
    /\ pc' = "end"
    /\ accUnchanged
    /\ UNCHANGED <<handler, lines, ctxCanceled, err, out, gen, convVars, svcVars>>

\* aliases.go:345-351: ReadBytes fails; after a cancel the failure is the cancel
ReadError ==
    /\ pc = "read"
    /\ err' = IF ctxCanceled THEN "read error: context canceled"
              ELSE "read error: unexpected EOF"
    /\ pc' = "end"
    /\ accUnchanged
    /\ UNCHANGED <<handler, lines, ctxCanceled, out, gen, convVars, svcVars>>

\* aliases.go:345-360 with anthropic.go:191-298: one line read and handed to
\* the callback (lines buffered before a cancel are still returned)
AnthropicOnLine ==
    /\ handler = "anthropic" /\ pc = "read"
    /\ Len(lines) < MaxLines
    /\ \E l \in LinesFor(handler) \ {BlankLine} :
         LET acc == AnthropicCallback(
                        [idx |-> contentBlockIndex, hasText |-> hasTextContent,
                         tcip |-> toolCallsInProgress, stop |-> stopReason,
                         usage |-> usageData, out |-> out, panicked |-> FALSE], l)
         IN /\ lines' = Append(lines, l)
            /\ contentBlockIndex' = acc.idx
            /\ hasTextContent' = acc.hasText
            /\ toolCallsInProgress' = acc.tcip
            /\ stopReason' = acc.stop
            /\ usageData' = acc.usage
            /\ out' = acc.out
            /\ pc' = IF acc.panicked THEN "panicked" ELSE "read"
    /\ UNCHANGED <<handler, ctxCanceled, err, fullText, gen, convVars, svcVars>>

\* aliases.go:345-360 with responses.go:353-402
ResponsesOnLine ==
    /\ handler = "responses" /\ pc = "read"
    /\ Len(lines) < MaxLines
    /\ \E l \in LinesFor(handler) \ {BlankLine} :
         LET acc == ResponsesCallback(
                        [usage |-> usageData, text |-> fullText, out |-> out,
                         panicked |-> FALSE], l)
         IN /\ lines' = Append(lines, l)
            /\ usageData' = acc.usage
            /\ fullText' = acc.text
            /\ out' = acc.out
            /\ pc' = IF acc.panicked THEN "panicked" ELSE "read"
    /\ UNCHANGED <<handler, ctxCanceled, err, contentBlockIndex, hasTextContent,
                   toolCallsInProgress, stopReason, gen, convVars, svcVars>>

\* aliases.go:345-360 with part_003:225-279
ChatOnLine ==
    /\ handler = "chat" /\ pc = "read"
    /\ Len(lines) < MaxLines
    /\ \E l \in LinesFor(handler) \ {BlankLine} :
         LET acc == ChatCallback([usage |-> usageData, text |-> fullText, out |-> out,
                                  panicked |-> FALSE], l)
         IN /\ lines' = Append(lines, l)
            /\ usageData' = acc.usage
            /\ fullText' = acc.text
            /\ out' = acc.out
            /\ pc' = IF acc.panicked THEN "panicked" ELSE "read"
    /\ UNCHANGED <<handler, ctxCanceled, err, contentBlockIndex, hasTextContent,
                   toolCallsInProgress, stopReason, gen, convVars, svcVars>>

\* level and statusMessage as every handler derives them from err
Level(e) == IF e # "nil" THEN "ERROR" ELSE ""
StatusMsg(e) == IF e # "nil" THEN e ELSE ""

\* AnthropicEnd as it would be if a stream error ended the handler before the
\* closing events (used to test that the properties read AnthropicEnd)
AnthropicEndSkipsOnError ==
    /\ handler = "anthropic" /\ pc = "end"
    /\ out' = IF err # "nil" THEN out
              ELSE out \o <<BlockStop(contentBlockIndex),
                             MessageDelta(stopReason, usageData), MessageStop>>
    /\ gen' = [called |-> TRUE, level |-> Level(err), statusMessage |-> StatusMsg(err),
               output |-> stopReason,
               usage |-> [PromptTokens |-> usageData.input_tokens,
                          CompletionTokens |-> usageData.output_tokens,
                          TotalTokens |-> usageData.input_tokens
                                          + usageData.output_tokens]]
    /\ pc' = "done"
    /\ accUnchanged
    /\ UNCHANGED <<handler, lines, ctxCanceled, err, convVars, svcVars>>

\* anthropic.go:300-342: content_block_stop, message_delta, message_stop, then
\* the generation is tracked
AnthropicEnd ==
    /\ handler = "anthropic" /\ pc = "end"
    /\ out' = out \o <<BlockStop(contentBlockIndex),
                       MessageDelta(stopReason, usageData),
                       MessageStop>>
    /\ gen' = [called |-> TRUE, level |-> Level(err), statusMessage |-> StatusMsg(err),
               output |-> stopReason,
               usage |-> [PromptTokens |-> usageData.input_tokens,
                          CompletionTokens |-> usageData.output_tokens,
                          TotalTokens |-> usageData.input_tokens
                                          + usageData.output_tokens]]
    /\ pc' = "done"
    /\ accUnchanged
    /\ UNCHANGED <<handler, lines, ctxCanceled, err, convVars, svcVars>>

\* responses.go:404-491
ResponsesEnd ==
    /\ handler = "responses" /\ pc = "end"
    /\ out' = out \o <<OutputTextDone(fullText), ContentPartDone(fullText),
                       OutputItemDone(fullText),
                       ResponseCompleted(fullText, usageData)>>
    /\ gen' = [called |-> TRUE, level |-> Level(err), statusMessage |-> StatusMsg(err),
               output |-> fullText,
               usage |-> [PromptTokens |-> usageData.input_tokens,
                          CompletionTokens |-> usageData.output_tokens,
                          TotalTokens |-> usageData.total_tokens]]
    /\ pc' = "done"
    /\ accUnchanged
    /\ UNCHANGED <<handler, lines, ctxCanceled, err, convVars, svcVars>>

\* part_003:281-296: nothing more is written, the generation is tracked
ChatEnd ==
    /\ handler = "chat" /\ pc = "end"
    /\ gen' = [called |-> TRUE, level |-> Level(err), statusMessage |-> StatusMsg(err),
               output |-> fullText, usage |-> usageData]
    /\ pc' = "done"
    /\ accUnchanged
    /\ UNCHANGED <<handler, lines, ctxCanceled, err, out, convVars, svcVars>>

Next ==
    \/ AnthropicStart
    \/ ResponsesStart
    \/ ChatStart
    \/ Cancel
    \/ ClientFail
    \/ ClientConnect
    \/ ReadBlank
    \/ ReadEOF
    \/ ReadError
    \/ AnthropicOnLine
    \/ ResponsesOnLine
    \/ ChatOnLine
    \/ AnthropicEnd
    \/ ResponsesEnd
    \/ ChatEnd

Spec == Init /\ [][Next]_vars

(***************************************************************************)
(* ConvertOpenAIResponseToAnthropic (non-streaming)                        *)
(***************************************************************************)
\* The argument texts the model draws, and what json.Unmarshal into a
\* map[string]interface{} makes of each: an object as its set of <<key, value>>
\* pairs; text that is no JSON object leaves the map nil.
ObjectTexts == {"{}", "{\"a\":1}"}
ParseObject(s) ==
    CASE s = "{}" -> [nil |-> FALSE, pairs |-> {}]
      [] s = "{\"a\":1}" -> [nil |-> FALSE, pairs |-> {<<"a", 1>>}]
      [] OTHER -> [nil |-> TRUE, pairs |-> {}]

\* part_005:314-339: one tool call becomes one tool_use block
ToolUseBlock(tc, i) ==
    LET id0 == StrOr(tc, "id")
        id == IF id0 = "" THEN "uuid-" \o ToString(i) ELSE id0
        function == ObjOr(tc, "function")
        name == StrOr(function, "name")
        argsStr == StrOr(function, "arguments")
        parsed == IF argsStr # "" THEN ParseObject(argsStr)
                  ELSE [nil |-> TRUE, pairs |-> {}]
        args == IF parsed.nil THEN {} ELSE parsed.pairs
    IN [type |-> "tool_use", id |-> id, name |-> name, input |-> args]

RECURSIVE ToolUseBlocks(_, _)
ToolUseBlocks(tcs, i) ==
    IF i > Len(tcs) THEN <<>>
    ELSE <<ToolUseBlock(tcs[i], i)>> \o ToolUseBlocks(tcs, i + 1)

\* part_005:343-348: the finish-reason mapping, applied to the stop reason the
\* tool-call branch left
MapFinishReason(stop, finishReason) ==
    IF finishReason = "stop" THEN "end_turn"
    ELSE IF finishReason = "length" THEN "max_tokens"
    ELSE stop

\* part_005:295-373
ConvertOpenAIResponseToAnthropic(resp) ==
    LET choices == IF HasKey(resp, "choices") THEN resp.choices ELSE <<>>
        usage == ObjOr(resp, "usage")
        promptDetails == ObjOr(usage, "prompt_tokens_details")
        usageOut ==
            [input_tokens |->
                 IF HasKey(usage, "prompt_tokens") THEN usage.prompt_tokens ELSE 0,
             output_tokens |->
                 IF HasKey(usage, "completion_tokens") THEN usage.completion_tokens
                 ELSE 0,
             cache_creation_input_tokens |-> 0,
             cache_read_input_tokens |->
                 IF HasKey(promptDetails, "cached_tokens")
                 THEN promptDetails.cached_tokens ELSE 0]
    IN IF Len(choices) = 0
       THEN [panicked |-> FALSE, content |-> <<>>, stop_reason |-> "end_turn",
             usage |-> usageOut]
       ELSE IF ~IsObject(choices[1])
       THEN [panicked |-> TRUE]
       ELSE
         LET choice == choices[1]
             message == ObjOr(choice, "message")
             text == StrOr(message, "content")
             textBlocks == IF text # "" THEN <<[type |-> "text", text |-> text]>>
                           ELSE <<>>
             toolCalls == IF HasKey(message, "tool_calls") THEN message.tool_calls
                          ELSE <<>>
             stop1 == IF Len(toolCalls) > 0 THEN "tool_use" ELSE "end_turn"
             finishReason == StrOr(choice, "finish_reason")
         IN [panicked |-> FALSE,
             content |-> textBlocks \o ToolUseBlocks(toolCalls, 1),
             stop_reason |-> MapFinishReason(stop1, finishReason),
             usage |-> usageOut]

\* the upstream results the converter is given
Opt(k, present, v) == IF present THEN (k :> v) ELSE EmptyObj

ConvToolCallLists ==
    {<<>>,
     <<[id |-> "c1", type |-> "function",
        function |-> [name |-> "f", arguments |-> "{}"]]>>,
     <<[id |-> "c2", function |-> [name |-> "g", arguments |-> "{\"a\":1}"]],
       [function |-> [name |-> "h", arguments |-> "oops"]]>>}

ConvMessages ==
    {Opt("content", hasC, c) @@ Opt("tool_calls", hasT, t) @@ [role |-> "assistant"] :
        hasC \in BOOLEAN, c \in {"", "Hi"}, hasT \in BOOLEAN, t \in ConvToolCallLists}

FinishReasons == {"stop", "length", "tool_calls", "content_filter"}

ConvChoices ==
    {Opt("finish_reason", hasF, f) @@ [message |-> m] :
        hasF \in BOOLEAN, f \in FinishReasons, m \in ConvMessages}

ConvInputs ==
    {[choices |-> <<>>], [choices |-> <<NonObject>>]}
    \cup {Opt("usage", hasU, u) @@ [choices |-> <<ch>>] :
            hasU \in BOOLEAN, u \in {UsageFull, UsageNoDetails}, ch \in ConvChoices}

InitConv ==
    /\ handler = "none"
    /\ pc = "idle"
    /\ lines = <<>>
    /\ ctxCanceled = FALSE
    /\ err = "nil"
    /\ out = <<>>
    /\ contentBlockIndex = 0
    /\ hasTextContent = FALSE
    /\ toolCallsInProgress = EmptyObj
    /\ stopReason = "end_turn"
    /\ usageData = ZeroAnthropicUsage
    /\ fullText = ""
    /\ gen = NoGen
    /\ convIn \in ConvInputs
    /\ convOut = ConvIdle
    /\ IdleHTTP
    /\ IdleTelemetry
    /\ IdleCopilot

\* anthropic.go:95: the handler converts the upstream result
ConvertResponse ==
    /\ convOut = ConvIdle
    /\ convOut' = ConvertOpenAIResponseToAnthropic(convIn)
    /\ UNCHANGED <<convIn, streamVars, svcVars>>

NextConv == ConvertResponse

SpecConv == InitConv /\ [][NextConv]_vars

(***************************************************************************)
(* Request converters (package converter) and the Responses handler's      *)
(* pure helpers                                                             *)
(***************************************************************************)
\* A decoded JSON value (Go interface{}) carries its dynamic type t, which the
\* converters switch on: nil, string, float64, []interface{} and
\* map[string]interface{} (a record whose DOMAIN is the set of keys present).
JNull == [t |-> "null"]
JStr(s) == [t |-> "str", str |-> s]
JNum(n) == [t |-> "num", num |-> n]
JList(l) == [t |-> "list", list |-> l]
JObj(m) == [t |-> "obj", obj |-> m]

\* m[k]: nil when the key is absent
Get(m, k) == IF k \in DOMAIN m THEN m[k] ELSE JNull
\* s, _ := v.(string): the zero value when the assertion fails
AsStr(v) == IF v.t = "str" THEN v.str ELSE ""
\* x, _ := v.(map[string]interface{}): a nil map reads like an empty one
AsMap(v) == IF v.t = "obj" THEN v.obj ELSE EmptyObj

\* encoding/json writes the keys of a map in sorted order; these are the keys
\* of the objects the model marshals, sorted
KeyOrder == <<"a", "b", "content", "name", "role", "text", "type">>

\* encoding/json escapes <, > and & in strings (and quotes, backslashes and
\* control characters, which no string of the model contains)
EscapeHTML(s) == IF s = "a<b" THEN "a\\u003cb" ELSE s
Quote(s) == "\"" \o EscapeHTML(s) \o "\""

\* json.Marshal of a decoded value
RECURSIVE Marshal(_), MarshalItems(_, _), MarshalFields(_, _, _)
Marshal(v) ==
    CASE v.t = "null" -> "null"
      [] v.t = "str" -> Quote(v.str)
      [] v.t = "num" -> ToString(v.num)
      [] v.t = "list" -> "[" \o MarshalItems(v.list, 1) \o "]"
      [] v.t = "obj" -> "{" \o MarshalFields(v.obj, 1, TRUE) \o "}"
MarshalItems(l, i) ==
    IF i > Len(l) THEN ""
    ELSE (IF i > 1 THEN "," ELSE "") \o Marshal(l[i]) \o MarshalItems(l, i + 1)
MarshalFields(m, i, first) ==
    IF i > Len(KeyOrder) THEN ""
    ELSE IF KeyOrder[i] \in DOMAIN m
    THEN (IF first THEN "" ELSE ",") \o Quote(KeyOrder[i]) \o ":"
         \o Marshal(m[KeyOrder[i]]) \o MarshalFields(m, i + 1, FALSE)
    ELSE MarshalFields(m, i + 1, first)

\* json.Marshal of the map a failed or successful v.(map[string]interface{})
\* left: a nil map is written as null, an empty one as {}
MarshalMap(v) == IF v.t = "obj" THEN Marshal(v) ELSE "null"

\* json.Unmarshal of the texts the model meets
Unmarshal(s) ==
    CASE s = "null" -> JNull
      [] s = "{}" -> JObj(EmptyObj)
      [] s = "{\"a\":1}" -> JObj([a |-> JNum(1)])
      [] s = "{\"a\":1,\"b\":\"x\"}" -> JObj([a |-> JNum(1), b |-> JStr("x")])
      [] s = "{\"b\":\"a\\u003cb\"}" -> JObj([b |-> JStr("a<b")])
      [] s = "{\"a\":{\"b\":[1,\"x\"]}}" ->
            JObj([a |-> JObj([b |-> JList(<<JNum(1), JStr("x")>>)])])
      [] OTHER -> [t |-> "error"]

\* the fresh identifier uuid.New() returns at its i-th use in one call
NewUUID(i) == "uuid-" \o ToString(i)

\* the parts the converters build
TextPart(s) == [type |-> JStr("text"), text |-> JStr(s)]
ImagePart(url) ==
    [type |-> JStr("image_url"), image_url |-> JObj([url |-> JStr(url)])]

\* part_005:53-67, 520-533: a base64 source becomes a data URL
DataURL(source) ==
    LET mediaType == AsStr(Get(source, "media_type"))
    IN "data:" \o (IF mediaType = "" THEN "image/png" ELSE mediaType)
       \o ";base64," \o AsStr(Get(source, "data"))

\* part_005:485-559: the parts one list item contributes
NormalizeItem(item) ==
    IF item.t = "str" THEN <<TextPart(item.str)>>
    ELSE IF item.t # "obj" THEN <<>>
    ELSE
      LET i == item.obj
          itemType == AsStr(Get(i, "type"))
      IN CASE itemType \in {"input_text", "output_text", "text"} ->
                <<TextPart(AsStr(Get(i, "text")))>>
           [] itemType = "image_url" -> <<i>>
           [] itemType = "input_image" ->
                LET u1 == AsStr(Get(i, "image_url"))
                    u2 == IF u1 = ""
                          THEN AsStr(Get(AsMap(Get(i, "image_url")), "url"))
                          ELSE u1
                    u3 == IF u2 = "" THEN AsStr(Get(i, "url")) ELSE u2
                IN <<ImagePart(u3)>>
           [] itemType = "image" ->
                LET source == AsMap(Get(i, "source"))
                IN IF AsStr(Get(source, "type")) = "base64"
                   THEN <<ImagePart(DataURL(source))>>
                   ELSE IF Get(i, "url").t = "str"
                   THEN <<ImagePart(Get(i, "url").str)>>
                   ELSE <<>>
           [] OTHER ->
                IF Get(i, "text").t = "str" THEN <<TextPart(Get(i, "text").str)>>
                ELSE <<TextPart(Marshal(item))>>

RECURSIVE NormalizeItems(_, _)
NormalizeItems(c, k) ==
    IF k > Len(c) THEN <<>>
    ELSE NormalizeItem(c[k]) \o NormalizeItems(c, k + 1)

\* a []map[string]interface{} as the value it is handed on as
PartList(parts) == JList([k \in 1..Len(parts) |-> JObj(parts[k])])

\* part_005:563-567: a single text part collapses to its text
CollapsesNonEmptyOnly(normalized) ==
    /\ Len(normalized) = 1
    /\ normalized[1].type = JStr("text")
    /\ normalized[1].text # JStr("")
Collapses(normalized) ==
    Len(normalized) = 1 /\ normalized[1].type = JStr("text")

\* part_005:474-476: nil content is the empty string
NilContentMarshalled == JStr("null")
NilContent == JStr("")

\* part_005:473-576
NormalizeContentForCopilot(content) ==
    CASE content.t = "null" -> NilContent
      [] content.t = "str" -> content
      [] content.t = "list" ->
            LET normalized == NormalizeItems(content.list, 1)
            IN IF Collapses(normalized) THEN normalized[1].text
               ELSE PartList(normalized)
      [] OTHER -> JStr(Marshal(content))

\* the concatenation of a sequence of sequences, in order
RECURSIVE Flat(_, _)
Flat(ss, k) == IF k > Len(ss) THEN <<>> ELSE ss[k] \o Flat(ss, k + 1)

\* part_005:195-202, 235-242: the parts joined by newlines
RECURSIVE JoinLines(_, _)
JoinLines(parts, k) ==
    IF k > Len(parts) THEN ""
    ELSE (IF k > 1 THEN "\n" ELSE "") \o parts[k] \o JoinLines(parts, k + 1)

\* part_005:183-193, 223-233: the text one list item contributes
TextOfItem(item) ==
    IF item.t = "obj"
    THEN IF Get(item.obj, "type") = JStr("text") /\ Get(item.obj, "text").t = "str"
         THEN <<Get(item.obj, "text").str>>
         ELSE <<>>
    ELSE IF item.t = "str" THEN <<item.str>>
    ELSE <<>>

TextsOf(c) == Flat([k \in 1..Len(c) |-> TextOfItem(c[k])], 1)

\* part_005:172-210
extractTextContent(content) ==
    CASE content.t = "null" -> ""
      [] content.t = "str" -> content.str
      [] content.t = "list" /\ Len(TextsOf(content.list)) > 0 ->
            JoinLines(TextsOf(content.list), 1)
      [] OTHER -> Marshal(content)

\* part_005:212-247
ExtractSystemText(system) ==
    CASE system.t = "null" -> ""
      [] system.t = "str" -> system.str
      [] system.t = "list" /\ Len(TextsOf(system.list)) > 0 ->
            JoinLines(TextsOf(system.list), 1)
      [] OTHER -> ""

\* part_005:46-67: the content part a text or image block contributes
BlockContent(block) ==
    LET blockType == AsStr(Get(block, "type"))
        source == AsMap(Get(block, "source"))
    IN IF blockType = "text" THEN <<TextPart(AsStr(Get(block, "text")))>>
       ELSE IF blockType = "image" /\ AsStr(Get(source, "type")) = "base64"
       THEN <<ImagePart(DataURL(source))>>
       ELSE <<>>

\* part_005:69-72: the id of the tool call made from the k-th block
ToolCallIDAlwaysFresh(block, k) == NewUUID(k)
ToolCallID(block, k) ==
    IF AsStr(Get(block, "id")) = "" THEN NewUUID(k) ELSE AsStr(Get(block, "id"))

\* part_005:68-84: the tool call a tool_use block contributes
BlockToolCall(block, k) ==
    IF AsStr(Get(block, "type")) = "tool_use"
    THEN <<[id |-> JStr(ToolCallID(block, k)),
            type |-> JStr("function"),
            function |->
                JObj([name |-> JStr(AsStr(Get(block, "name"))),
                      arguments |-> JStr(MarshalMap(Get(block, "input")))])]>>
    ELSE <<>>

\* part_005:85-93: the tool result a tool_result block contributes
BlockToolResult(block) ==
    IF AsStr(Get(block, "type")) = "tool_result"
    THEN <<[tool_call_id |-> JStr(AsStr(Get(block, "tool_use_id"))),
            content |-> JStr(extractTextContent(Get(block, "content")))]>>
    ELSE <<>>

\* part_005:37-42: the blocks that are objects, each with its position
BlockMaps(c) == SelectSeq([k \in 1..Len(c) |-> [k |-> k, b |-> c[k]]],
                          LAMBDA e : e.b.t = "obj")

\* part_005:103-111, 129-141, 144-156: one text part stands as its text
ContentOf(openaiContent) ==
    IF Len(openaiContent) = 1 /\ openaiContent[1].type = JStr("text")
    THEN openaiContent[1].text
    ELSE PartList(openaiContent)

\* part_005:120-126
ToolMessage(tr) ==
    [role |-> JStr("tool"), tool_call_id |-> tr.tool_call_id,
     content |-> tr.content]

\* part_005:128-141: the user content message follows the tool messages
UserContentFirst(toolMsgs, userMsgs) == userMsgs \o toolMsgs
UserMessages(toolMsgs, userMsgs) == toolMsgs \o userMsgs

\* part_005:21-167: the canonical messages one input message becomes
ConvertAnthropicMessage(msg) ==
    LET role == AsStr(Get(msg, "role"))
        content == Get(msg, "content")
    IN CASE content.t = "str" -> <<[role |-> JStr(role), content |-> content]>>
         [] content.t = "list" ->
              LET bs == BlockMaps(content.list)
                  openaiContent ==
                      Flat([j \in 1..Len(bs) |-> BlockContent(bs[j].b.obj)], 1)
                  toolCalls ==
                      Flat([j \in 1..Len(bs) |->
                                BlockToolCall(bs[j].b.obj, bs[j].k)], 1)
                  toolResults ==
                      Flat([j \in 1..Len(bs) |-> BlockToolResult(bs[j].b.obj)], 1)
                  regular ==
                      IF Len(openaiContent) > 0
                      THEN <<[role |-> JStr(role),
                              content |-> ContentOf(openaiContent)]>>
                      ELSE <<>>
              IN IF role = "assistant"
                 THEN <<[role |-> JStr("assistant"),
                         content |-> IF Len(openaiContent) > 0
                                     THEN ContentOf(openaiContent) ELSE JNull]
                        @@ (IF Len(toolCalls) > 0
                            THEN [tool_calls |-> PartList(toolCalls)]
                            ELSE EmptyObj)>>
                 ELSE IF role = "user"
                 THEN UserMessages(
                          [j \in 1..Len(toolResults) |->
                               ToolMessage(toolResults[j])],
                          regular)
                 ELSE regular
         [] OTHER -> <<[role |-> JStr(role), content |-> JStr(Marshal(content))]>>

\* part_005:14-19, 583-588: the leading system message
SystemMessagesAlways(text) == <<[role |-> JStr("system"), content |-> JStr(text)]>>
SystemMessages(text) ==
    IF text # "" THEN <<[role |-> JStr("system"), content |-> JStr(text)]>>
    ELSE <<>>

\* part_005:10-170
ConvertAnthropicToCopilotMessages(messages, system) ==
    SystemMessages(system)
    \o Flat([k \in 1..Len(messages) |-> ConvertAnthropicMessage(messages[k])], 1)

\* a []map[string]interface{} result: nil when nothing was kept
NilIfEmpty(kept) == IF Len(kept) = 0 THEN JNull ELSE PartList(kept)

\* part_005:269-275: the schema, or the default one
DefaultSchema ==
    JObj([type |-> JStr("object"), properties |-> JObj(EmptyObj)])
InputSchemaVerbatim(toolMap) == Get(toolMap, "input_schema")
InputSchema(toolMap) ==
    IF Get(toolMap, "input_schema").t = "obj" THEN Get(toolMap, "input_schema")
    ELSE DefaultSchema

\* part_005:257-284: the tool one entry becomes, if any
AnthropicTool(tool) ==
    IF tool.t # "obj" \/ AsStr(Get(tool.obj, "name")) = "" THEN <<>>
    ELSE <<[type |-> JStr("function"),
            function |->
                JObj([name |-> JStr(AsStr(Get(tool.obj, "name"))),
                      description |-> JStr(AsStr(Get(tool.obj, "description"))),
                      parameters |-> InputSchema(tool.obj)])]>>

\* part_005:249-292
ConvertAnthropicTools(tools) ==
    NilIfEmpty(Flat([k \in 1..Len(tools) |-> AnthropicTool(tools[k])], 1))

\* part_005:440-443: only function-typed entries are kept
IsFunctionToolAnyType(toolMap) == TRUE
IsFunctionTool(toolMap) == AsStr(Get(toolMap, "type")) = "function"

\* part_005:434-462: the tool one entry becomes, if any
OpenAITool(tool) ==
    IF tool.t # "obj" THEN <<>>
    ELSE IF ~IsFunctionTool(tool.obj) THEN <<>>
    ELSE IF Get(tool.obj, "function").t # "obj" THEN <<>>
    ELSE IF AsStr(Get(Get(tool.obj, "function").obj, "name")) = "" THEN <<>>
    ELSE LET funcData == Get(tool.obj, "function").obj
         IN <<[type |-> JStr("function"),
               function |->
                   JObj([name |-> JStr(AsStr(Get(funcData, "name"))),
                         description |-> Get(funcData, "description"),
                         parameters |-> Get(funcData, "parameters")])]>>

\* part_005:426-470
ConvertOpenAITools(tools) ==
    NilIfEmpty(Flat([k \in 1..Len(tools) |-> OpenAITool(tools[k])], 1))

\* responses.go:155-183: the tool one entry becomes, if any
FilteredTool(tool) ==
    IF tool.t # "obj" THEN <<>>
    ELSE LET toolMap == tool.obj
             toolType == AsStr(Get(toolMap, "type"))
             funcData == Get(toolMap, "function")
         IN IF toolType # "function" THEN <<>>
            ELSE IF funcData.t # "obj" THEN <<>>
            ELSE IF AsStr(Get(funcData.obj, "name")) = "" THEN <<>>
            ELSE <<[type |-> JStr("function"),
                    function |->
                        JObj([name |-> JStr(AsStr(Get(funcData.obj, "name"))),
                              description |-> Get(funcData.obj, "description"),
                              parameters |-> Get(funcData.obj, "parameters")])]>>

\* responses.go:147-191
filterFunctionTools(tools) ==
    NilIfEmpty(Flat([k \in 1..Len(tools) |-> FilteredTool(tools[k])], 1))

\* part_005:391-408: what becomes of a content that is present
OpenAIContentNormalized(c) ==
    IF c.t = "str" THEN c ELSE NormalizeContentForCopilot(c)
OpenAIContent(c) ==
    CASE c.t = "str" -> c
      [] c.t = "list" -> c
      [] c.t = "null" -> JNull
      [] OTHER -> JStr(Marshal(c))

\* part_005:411-418: a key that is copied when present and not nil
CopyKey(msg, k) ==
    IF k \in DOMAIN msg /\ msg[k].t # "null" THEN (k :> msg[k]) ELSE EmptyObj

\* part_005:386-420
ConvertOpenAIMessage(msg) ==
    [role |-> Get(msg, "role")]
    @@ (IF "content" \in DOMAIN msg
        THEN [content |-> OpenAIContent(msg.content)] ELSE EmptyObj)
    @@ CopyKey(msg, "tool_calls")
    @@ CopyKey(msg, "tool_call_id")

\* part_005:382-424
ConvertOpenAIToCopilotMessages(messages) ==
    [k \in 1..Len(messages) |-> ConvertOpenAIMessage(messages[k])]

\* part_005:598-656: the messages one input item becomes
ResponsesItem(item) ==
    IF item.t = "str"
    THEN <<[role |-> JStr("user"), content |-> item]>>
    ELSE IF item.t # "obj" THEN <<>>
    ELSE
      LET itemMap == item.obj
          itemType == AsStr(Get(itemMap, "type"))
          role0 == AsStr(Get(itemMap, "role"))
          role == IF role0 = "" THEN "user" ELSE role0
      IN CASE itemType = "message" ->
                <<[role |-> JStr(role),
                   content |->
                       NormalizeContentForCopilot(Get(itemMap, "content"))]>>
           [] itemType = "input_text" ->
                <<[role |-> JStr("user"),
                   content |-> JStr(AsStr(Get(itemMap, "text")))]>>
           [] itemType = "output_text" ->
                <<[role |-> JStr("assistant"),
                   content |-> JStr(AsStr(Get(itemMap, "text")))]>>
           [] OTHER ->
                IF "content" \in DOMAIN itemMap
                THEN <<[role |-> JStr(role),
                        content |-> NormalizeContentForCopilot(itemMap.content)]>>
                ELSE IF Get(itemMap, "text").t = "str"
                THEN <<[role |-> JStr(role), content |-> itemMap.text]>>
                ELSE <<[role |-> JStr(role), content |-> JStr(Marshal(item))]>>

\* part_005:578-669
ConvertResponsesInputToMessages(input, instructions) ==
    SystemMessages(instructions)
    \o (CASE input.t = "str" -> <<[role |-> JStr("user"), content |-> input]>>
          [] input.t = "list" ->
                Flat([k \in 1..Len(input.list) |-> ResponsesItem(input.list[k])], 1)
          [] OTHER ->
                <<[role |-> JStr("user"), content |-> JStr(Marshal(input))]>>)

\* responses.go:241-243: empty arguments become {}
Arguments(args) == IF args = "" THEN "{}" ELSE args

\* responses.go:232-250: the function_call entry of the k-th tool call
FunctionCall(tc, k) ==
    LET id == AsStr(Get(tc, "id"))
        function == AsMap(Get(tc, "function"))
    IN [type |-> "function_call",
        id |-> IF id = "" THEN NewUUID(k) ELSE id,
        name |-> AsStr(Get(function, "name")),
        arguments |-> Arguments(AsStr(Get(function, "arguments")))]

\* responses.go:193-255; the unchecked assertions of lines 212 and 232 abort
\* the call when choices[0] or a tool call is no object
convertToResponsesOutput(resp) ==
    LET respMap == AsMap(resp)
        choices == IF Get(respMap, "choices").t = "list"
                   THEN Get(respMap, "choices").list ELSE <<>>
    IN IF Len(choices) = 0 THEN [panicked |-> FALSE, output |-> <<>>]
       ELSE IF choices[1].t # "obj" THEN [panicked |-> TRUE]
       ELSE
         LET message == AsMap(Get(choices[1].obj, "message"))
             content == AsStr(Get(message, "content"))
             toolCalls == IF Get(message, "tool_calls").t = "list"
                          THEN Get(message, "tool_calls").list ELSE <<>>
             text == IF content # ""
                     THEN <<[type |-> "message", role |-> "assistant",
                             content |-> <<[type |-> "output_text",
                                            text |-> content]>>]>>
                     ELSE <<>>
         IN IF \E k \in 1..Len(toolCalls) : toolCalls[k].t # "obj"
            THEN [panicked |-> TRUE]
            ELSE [panicked |-> FALSE,
                  output |-> text \o [k \in 1..Len(toolCalls) |->
                                         FunctionCall(toolCalls[k].obj, k)]]

(***************************************************************************)
(* The requests and upstream results the converters are given              *)
(***************************************************************************)
\* all sequences over S of length at most n
SeqsUpTo(S, n) == UNION {[1..k -> S] : k \in 0..n}

ToolUseInputs ==
    {JNull, JStr("x"), JObj(EmptyObj), JObj([a |-> JNum(1)]),
     JObj([a |-> JNum(1), b |-> JStr("x")]), JObj([b |-> JStr("a<b")]),
     JObj([a |-> JObj([b |-> JList(<<JNum(1), JStr("x")>>)])])}

AnthropicBlocks ==
    {[type |-> JStr("tool_use"), id |-> JStr("toolu_01"), name |-> JStr("search"),
      input |-> i] : i \in ToolUseInputs}
    \cup {[type |-> JStr("tool_use"), id |-> JStr("toolu_02"), name |-> JStr("f")],
          [type |-> JStr("tool_use"), name |-> JStr("g"),
           input |-> JObj([a |-> JNum(1)])],
          [type |-> JStr("text"), text |-> JStr("hi")],
          [type |-> JStr("text")],
          [type |-> JStr("image"),
           source |-> JObj([type |-> JStr("base64"), data |-> JStr("QUJD")])],
          [type |-> JStr("image"), source |-> JObj([type |-> JStr("url")])],
          [type |-> JStr("tool_result"), tool_use_id |-> JStr("toolu_01"),
           content |-> JStr("ok")],
          [type |-> JStr("tool_result"), tool_use_id |-> JStr("toolu_02"),
           content |-> JList(<<JObj([type |-> JStr("text"), text |-> JStr("a")]),
                               JStr("b")>>)],
          [type |-> JStr("tool_result"), content |-> JList(<<>>)],
          [type |-> JStr("thinking")]}

AnthropicBlockItems == {JObj(b) : b \in AnthropicBlocks} \cup {JStr("stray")}

AnthropicContents ==
    {JStr("hello"), JNull, JNum(7)}
    \cup {JList(l) : l \in SeqsUpTo(AnthropicBlockItems, MaxItems)}

AnthropicMessages ==
    {[role |-> JStr(r), content |-> c] :
        r \in {"user", "assistant", "system"}, c \in AnthropicContents}

AnthropicSystems ==
    {JNull, JStr(""), JStr("Be brief"),
     JList(<<JObj([type |-> JStr("text"), text |-> JStr("Be")]), JStr("brief")>>),
     JList(<<JObj([type |-> JStr("image")])>>)}

AnthropicRequests ==
    {[kind |-> "anthropic", messages |-> <<m>>, system |-> s] :
        m \in AnthropicMessages, s \in {JNull, JStr("Be brief")}}
    \cup {[kind |-> "anthropic", messages |-> ms, system |-> s] :
            ms \in SeqsUpTo({[role |-> JStr("system"), content |-> JStr("sys")],
                             [role |-> JStr("user"), content |-> JStr("hello")],
                             [role |-> JStr("user"),
                              content |-> JList(<<JObj([type |-> JStr("text"),
                                                        text |-> JStr("hi")])>>)],
                             [content |-> JNull]}, MaxItems),
            s \in AnthropicSystems}

NormalizerItems ==
    {JStr("s"), JNull, JNum(3), JObj(EmptyObj),
     JObj([type |-> JStr("text")]),
     JObj([type |-> JStr("image_url"),
           image_url |-> JObj([url |-> JStr("http://e/i.png")])]),
     JObj([type |-> JStr("input_image"), image_url |-> JStr("http://e/a.png")]),
     JObj([type |-> JStr("input_image"),
           image_url |-> JObj([url |-> JStr("http://e/b.png")])]),
     JObj([type |-> JStr("input_image"), url |-> JStr("http://e/c.png")]),
     JObj([type |-> JStr("image"),
           source |-> JObj([type |-> JStr("base64"),
                            media_type |-> JStr("image/jpeg"),
                            data |-> JStr("QUJD")])]),
     JObj([type |-> JStr("image"), url |-> JStr("http://e/d.png")]),
     JObj([type |-> JStr("image")]),
     JObj([type |-> JStr("bogus")]),
     JObj([type |-> JStr("bogus"), text |-> JStr("t")])}
    \cup {JObj([type |-> JStr(d), text |-> JStr(s)]) :
            d \in {"text", "input_text", "output_text"}, s \in {"", "hi"}}

NormalizerContents ==
    {JNull, JStr(""), JStr("hi"), JNum(7), JObj([a |-> JNum(1)])}
    \cup {JList(l) : l \in SeqsUpTo(NormalizerItems, MaxItems)}

NormalizerRequests == {[kind |-> "normalize", content |-> c] : c \in NormalizerContents}

OpenAIMessages ==
    {[role |-> JStr("user"), content |-> JStr("Hello")],
     [role |-> JStr("user"), content |-> JStr("")],
     [role |-> JStr("assistant"), content |-> JNull, tool_calls |-> JList(<<>>)],
     [role |-> JStr("assistant"), content |-> JNull,
      tool_calls |-> JList(<<JObj([id |-> JStr("call_1")])>>)],
     [role |-> JStr("assistant"), tool_calls |-> JNull, tool_call_id |-> JNull],
     [role |-> JStr("user"),
      content |-> JList(<<JObj([type |-> JStr("text"), text |-> JStr("What")])>>)],
     [role |-> JStr("user"),
      content |-> JList(<<JObj([type |-> JStr("text"), text |-> JStr("What")]),
                          JObj([type |-> JStr("image_url"),
                                image_url |->
                                    JObj([url |-> JStr("http://e/i.png")])])>>)],
     [role |-> JStr("user"), content |-> JList(<<>>)],
     [role |-> JStr("tool"), content |-> JStr("result"),
      tool_call_id |-> JStr("call_1")],
     [role |-> JStr("user"), content |-> JNum(7)],
     [role |-> JStr("user"), content |-> JObj([a |-> JNum(1)])],
     [content |-> JStr("no role")]}

OpenAIRequests ==
    {[kind |-> "openai", messages |-> ms] : ms \in SeqsUpTo(OpenAIMessages, MaxItems)}

ResponsesItems ==
    {JStr("plain"), JNum(3), JObj(EmptyObj),
     JObj([type |-> JStr("message"), role |-> JStr("user"), content |-> JStr("x")]),
     JObj([type |-> JStr("message"), role |-> JStr("system"),
           content |-> JList(<<JObj([type |-> JStr("input_text"),
                                     text |-> JStr("rules")])>>)]),
     JObj([type |-> JStr("message"), content |-> JNull]),
     JObj([type |-> JStr("input_text"), text |-> JStr("in")]),
     JObj([type |-> JStr("output_text"), text |-> JStr("out")]),
     JObj([role |-> JStr("assistant"), content |-> JStr("c")]),
     JObj([text |-> JStr("t")]),
     JObj([type |-> JStr("bogus")])}

ResponsesRequests ==
    {[kind |-> "responses", input |-> i, instructions |-> s] :
        i \in {JNull, JStr("hello"), JNum(7), JObj([a |-> JNum(1)])}
              \cup {JList(l) : l \in SeqsUpTo(ResponsesItems, MaxItems)},
        s \in {"", "Be brief"}}

ToolEntries ==
    {JStr("stray"), JNull, JObj(EmptyObj),
     JObj([name |-> JStr("f"), description |-> JStr("d"),
           input_schema |-> JObj([type |-> JStr("object")])]),
     JObj([name |-> JStr("g")]),
     JObj([name |-> JStr(""), description |-> JStr("x")]),
     JObj([name |-> JStr("h"), input_schema |-> JNull]),
     JObj([name |-> JStr("i"), input_schema |-> JStr("x")]),
     JObj([name |-> JStr("j"), input_schema |-> JObj(EmptyObj)]),
     JObj([type |-> JStr("function"),
           function |-> JObj([name |-> JStr("k"), description |-> JStr("d"),
                              parameters |-> JObj([type |-> JStr("object")])])]),
     JObj([type |-> JStr("function"), function |-> JObj([name |-> JStr("l")])]),
     JObj([type |-> JStr("function"), function |-> JObj([name |-> JStr("")])]),
     JObj([type |-> JStr("function"), function |-> JObj([name |-> JNum(1)])]),
     JObj([type |-> JStr("function"), function |-> JStr("m")]),
     JObj([type |-> JStr("function")]),
     JObj([type |-> JStr("retrieval"), function |-> JObj([name |-> JStr("r")])]),
     JObj([function |-> JObj([name |-> JStr("n")])])}

ToolsRequests ==
    {[kind |-> "tools", tools |-> ts] : ts \in SeqsUpTo(ToolEntries, MaxItems)}

UpstreamToolCalls ==
    {JNum(7),
     JObj([id |-> JStr("c1"), type |-> JStr("function"),
           function |-> JObj([name |-> JStr("f"), arguments |-> JStr("{}")])]),
     JObj([id |-> JStr("c2"),
           function |-> JObj([name |-> JStr("g"),
                              arguments |-> JStr("{\"a\":1}")])]),
     JObj([function |-> JObj([name |-> JStr("h"), arguments |-> JStr("")])]),
     JObj([id |-> JStr(""), function |-> JObj([name |-> JStr("i")])]),
     JObj([id |-> JStr("c5")])}

UpstreamMessages ==
    {Opt("content", hasC, c) @@ Opt("tool_calls", hasT, t)
     @@ [role |-> JStr("assistant")] :
        hasC \in BOOLEAN, c \in {JNull, JStr(""), JStr("Hi")}, hasT \in BOOLEAN,
        t \in {JNull} \cup {JList(l) : l \in SeqsUpTo(UpstreamToolCalls, MaxItems)}}

UpstreamResults ==
    {[kind |-> "upstream", resp |-> r] :
        r \in {JNull, JObj(EmptyObj), JObj([choices |-> JNull]),
               JObj([choices |-> JList(<<>>)]),
               JObj([choices |-> JList(<<JStr("x")>>)]),
               JObj([choices |-> JList(<<JObj(EmptyObj)>>)])}
              \cup {JObj([choices |-> JList(<<JObj([message |-> JObj(m)])>>)]) :
                      m \in UpstreamMessages}}

ReqInputs ==
    AnthropicRequests \cup NormalizerRequests \cup OpenAIRequests
    \cup ResponsesRequests \cup ToolsRequests \cup UpstreamResults

(***************************************************************************)
(* One converter call per step                                             *)
(***************************************************************************)
InitReq ==
    /\ handler = "none"
    /\ pc = "idle"
    /\ lines = <<>>
    /\ ctxCanceled = FALSE
    /\ err = "nil"
    /\ out = <<>>
    /\ contentBlockIndex = 0
    /\ hasTextContent = FALSE
    /\ toolCallsInProgress = EmptyObj
    /\ stopReason = "end_turn"
    /\ usageData = ZeroAnthropicUsage
    /\ fullText = ""
    /\ gen = NoGen
    /\ convIn \in ReqInputs
    /\ convOut = EmptyObj
    /\ IdleHTTP
    /\ IdleTelemetry
    /\ IdleCopilot

\* anthropic.go:51-52
CallConvertAnthropicMessages ==
    /\ convIn.kind = "anthropic"
    /\ ~HasKey(convOut, "messages")
    /\ convOut' = [messages |->
                       ConvertAnthropicToCopilotMessages(
                           convIn.messages, ExtractSystemText(convIn.system))]
    /\ UNCHANGED <<convIn, streamVars, svcVars>>

\* part_005:619, 638: the normalizer applied to one content value
CallNormalize ==
    /\ convIn.kind = "normalize"
    /\ ~HasKey(convOut, "content")
    /\ convOut' = [content |-> NormalizeContentForCopilot(convIn.content)]
    /\ UNCHANGED <<convIn, streamVars, svcVars>>

\* part_003:114
CallConvertOpenAIMessages ==
    /\ convIn.kind = "openai"
    /\ ~HasKey(convOut, "messages")
    /\ convOut' = [messages |-> ConvertOpenAIToCopilotMessages(convIn.messages)]
    /\ UNCHANGED <<convIn, streamVars, svcVars>>

\* responses.go:50
CallConvertResponsesInput ==
    /\ convIn.kind = "responses"
    /\ ~HasKey(convOut, "messages")
    /\ convOut' = [messages |->
                       ConvertResponsesInputToMessages(convIn.input,
                                                       convIn.instructions)]
    /\ UNCHANGED <<convIn, streamVars, svcVars>>

\* anthropic.go:53
CallConvertAnthropicTools ==
    /\ convIn.kind = "tools"
    /\ ~HasKey(convOut, "anthropicTools")
    /\ convOut' = [anthropicTools |-> ConvertAnthropicTools(convIn.tools)] @@ convOut
    /\ UNCHANGED <<convIn, streamVars, svcVars>>

\* part_003:115
CallConvertOpenAITools ==
    /\ convIn.kind = "tools"
    /\ ~HasKey(convOut, "openaiTools")
    /\ convOut' = [openaiTools |-> ConvertOpenAITools(convIn.tools)] @@ convOut
    /\ UNCHANGED <<convIn, streamVars, svcVars>>

\* responses.go:51
CallFilterFunctionTools ==
    /\ convIn.kind = "tools"
    /\ ~HasKey(convOut, "filteredTools")
    /\ convOut' = [filteredTools |-> filterFunctionTools(convIn.tools)] @@ convOut
    /\ UNCHANGED <<convIn, streamVars, svcVars>>

\* responses.go:89
CallConvertToResponsesOutput ==
    /\ convIn.kind = "upstream"
    /\ ~HasKey(convOut, "panicked")
    /\ convOut' = convertToResponsesOutput(convIn.resp)
    /\ UNCHANGED <<convIn, streamVars, svcVars>>

NextReq ==
    \/ CallConvertAnthropicMessages
    \/ CallNormalize
    \/ CallConvertOpenAIMessages
    \/ CallConvertResponsesInput
    \/ CallConvertAnthropicTools
    \/ CallConvertOpenAITools
    \/ CallFilterFunctionTools
    \/ CallConvertToResponsesOutput

SpecReq == InitReq /\ [][NextReq]_vars

(***************************************************************************)
(* The HTTP front end: apiKeyMiddleware, corsMiddleware, the mux's method  *)
(* patterns and the four POST handlers up to their first upstream call.    *)
(* One behaviour is one request.  A text (a header value, an error text)   *)
(* is a sequence of pieces, so that prefix and substring tests are         *)
(* computed on it.                                                         *)
(***************************************************************************)
Contains(text, piece) == \E i \in DOMAIN text : text[i] = piece
HasPrefix(text, piece) == Len(text) >= 1 /\ text[1] = piece
TrimPrefix(text, piece) == IF HasPrefix(text, piece) THEN Tail(text) ELSE text

\* The streaming part of the program, at rest.
IdleStream ==
    /\ handler = "none"
    /\ pc = "idle"
    /\ lines = <<>>
    /\ ctxCanceled = FALSE
    /\ err = "nil"
    /\ out = <<>>
    /\ contentBlockIndex = 0
    /\ hasTextContent = FALSE
    /\ toolCallsInProgress = EmptyObj
    /\ stopReason = "end_turn"
    /\ usageData = ZeroAnthropicUsage
    /\ fullText = ""
    /\ gen = NoGen
    /\ convIn = ConvIdle
    /\ convOut = ConvIdle

\* net/http: a ResponseWriter on which nothing has been written.  The status
\* is 0 until WriteHeader or the first Write.
NoResponse == [status |-> 0, headers |-> {}, body |-> <<>>]

SetHeader(w, name, value) ==
    IF w.status = 0
    THEN [w EXCEPT !.headers = {h \in @ : h[1] # name} \cup {<<name, value>>}]
    ELSE w

WriteHeader(w, code) == IF w.status = 0 THEN [w EXCEPT !.status = code] ELSE w

Write(w, data) == [WriteHeader(w, 200) EXCEPT !.body = Append(@, data)]

\* net/http http.Error
HttpError(w, msg, code) ==
    Write(WriteHeader(SetHeader(w, "Content-Type", "text/plain"), code), msg)

\* main.go:207, 214
AuthorizedByPrefix(apiKey, req) ==
    \/ HasPrefix(req.authorization, "Bearer ")
    \/ req.xApiKey = apiKey
Authorized(apiKey, req) ==
    \/ /\ HasPrefix(req.authorization, "Bearer ")
       /\ TrimPrefix(req.authorization, "Bearer ") = apiKey
    \/ req.xApiKey = apiKey

\* main.go:198-221
apiKeyMiddleware ==
    /\ served.pc = "middleware"
    /\ IF server.apiKey = <<>> \/ Authorized(server.apiKey, request)
       THEN /\ served' = [served EXCEPT !.pc = "cors"]
            /\ UNCHANGED response
       ELSE /\ served' = [served EXCEPT !.pc = "done"]
            /\ response' = HttpError(response, "Unauthorized", 401)
    /\ UNCHANGED <<server, request, upstreamCalls, tracked>>
    /\ UNCHANGED <<streamVars, convVars, telVars, copilotVars>>

\* main.go:181-195
corsMiddleware ==
    /\ served.pc = "cors"
    /\ LET h1 == SetHeader(response, "Access-Control-Allow-Origin", "*")
           h2 == SetHeader(h1, "Access-Control-Allow-Methods", "methods")
           h3 == SetHeader(h2, "Access-Control-Allow-Headers", "headers")
           h4 == SetHeader(h3, "Access-Control-Max-Age", "86400")
       IN  IF request.method = "OPTIONS"
           THEN /\ response' = WriteHeader(h4, 200)
                /\ served' = [served EXCEPT !.pc = "done", !.cors = TRUE]
           ELSE /\ response' = h4
                /\ served' = [served EXCEPT !.pc = "mux", !.cors = TRUE]
    /\ UNCHANGED <<server, request, upstreamCalls, tracked>>
    /\ UNCHANGED <<streamVars, convVars, telVars, copilotVars>>

\* main.go:95-106: every route handled here is registered for POST only;
\* the mux answers another method with 405.
MethodNotAllowed ==
    /\ served.pc = "mux"
    /\ request.method # "POST"
    /\ response' = HttpError(response, "Method Not Allowed", 405)
    /\ served' = [served EXCEPT !.pc = "done"]
    /\ UNCHANGED <<server, request, upstreamCalls, tracked>>
    /\ UNCHANGED <<streamVars, convVars, telVars, copilotVars>>

\* encoding/json Decoder.Decode into the request struct: it reads the first
\* JSON value of the body and nothing after it.  It fails on an empty body,
\* on a first value that is not JSON, and on a JSON value whose fields do
\* not fit the struct.
DecodeFails(body) == body.first # "object"

\* anthropic.go:80-83, responses.go:73-76, part_003:142-145
ErrorStatusAlways500(text) == 500
ErrorStatus(text) == IF Contains(text, "API error") THEN 502 ELSE 500

\* anthropic.go:140, responses.go:293, part_003:208: w.(http.Flusher)
CanStreamAlways(req) == TRUE
CanStream(req) == req.flusher

\* Bodies an upstream endpoint answers a failed request with.
UpstreamBodies == {"Forbidden", "API error"}

\* aliases.go:211-277 Client.ChatCompletions: the error it returns (with the
\* texts of part_004:250, 424-450 for the wrapped errors), or a decoded
\* result whose usage is present or nil.
ChatCompletionsResults ==
    {[kind |-> "credentials",
      text |-> <<"failed to get credentials:", "failed to read credentials file:">>],
     [kind |-> "token",
      text |-> <<"failed to get copilot token:", "token request failed:">>],
     [kind |-> "transport", text |-> <<"request failed:", "dial tcp">>],
     [kind |-> "decode",
      text |-> <<"failed to decode response:", "unexpected EOF">>],
     [kind |-> "ok", usage |-> TRUE],
     [kind |-> "ok", usage |-> FALSE]}
    \cup {[kind |-> "token",
           text |-> <<"failed to get copilot token:",
                      "failed to get Copilot token:", b>>] : b \in UpstreamBodies}
    \cup {[kind |-> "status", text |-> <<"API error", "500:", b>>] :
             b \in UpstreamBodies}

\* trackGeneration (anthropic.go:110-113): nothing when telemetry is off
trackGeneration(records, rec) ==
    IF server.langfuse THEN Append(records, rec) ELSE records

SSEHeaders(w) ==
    LET h1 == SetHeader(w, "Content-Type", "text/event-stream")
        h2 == SetHeader(h1, "Cache-Control", "no-cache")
        h3 == SetHeader(h2, "Connection", "keep-alive")
    IN  SetHeader(h3, "X-Accel-Buffering", "no")

\* The non-streaming path: anthropic.go:79-107, responses.go:72-116,
\* part_003:141-175.  A result without usage makes the handler dereference
\* a nil pointer; net/http recovers the panic and aborts the response.
NonStreaming(route) ==
    \E result \in ChatCompletionsResults :
        /\ upstreamCalls' = Append(upstreamCalls,
                                   [call |-> "ChatCompletions", result |-> result])
        /\ IF result.kind # "ok"
           THEN /\ tracked' = trackGeneration(tracked,
                                 [level |-> "ERROR", status |-> result.text])
                /\ response' = HttpError(response, result.text,
                                         ErrorStatus(result.text))
                /\ served' = [served EXCEPT !.pc = "done", !.handler = route]
           ELSE IF ~result.usage
           THEN /\ UNCHANGED <<tracked, response>>
                /\ served' = [served EXCEPT !.pc = "panicked", !.handler = route]
           ELSE /\ tracked' = trackGeneration(tracked, [level |-> ""])
                /\ response' = Write(SetHeader(response, "Content-Type",
                                               "application/json"), "converted")
                /\ served' = [served EXCEPT !.pc = "done", !.handler = route]

\* The streaming path up to the end of the upstream stream: anthropic.go
\* 139-149, responses.go 292-302, part_003 207-217.  What the relayers write
\* per line is the subject of Spec; here the events are one write, which the
\* chat relayer may not make at all (an upstream failure before any line).
Streaming(route) ==
    IF ~CanStream(request)
    THEN /\ response' = HttpError(response, "Streaming not supported", 500)
         /\ served' = [served EXCEPT !.pc = "done", !.handler = route]
         /\ UNCHANGED <<upstreamCalls, tracked>>
    ELSE \E failed \in BOOLEAN, wrote \in BOOLEAN :
         /\ (route # "chat" => wrote)
         /\ upstreamCalls' = Append(upstreamCalls,
                                    [call |-> "ChatCompletionsStream",
                                     failed |-> failed])
         /\ response' = IF wrote THEN Write(SSEHeaders(response), "events")
                        ELSE SSEHeaders(response)
         /\ tracked' = trackGeneration(tracked,
                          [level |-> IF failed THEN "ERROR" ELSE ""])
         /\ served' = [served EXCEPT !.pc = "done", !.handler = route]

\* The entry of a generation handler: part_003:93-112 (ChatCompletions),
\* responses.go:28-48 (Responses), anthropic.go:28-49 (Messages)
Generate(route) ==
    /\ served.pc = "mux"
    /\ request.method = "POST"
    /\ request.route = route
    /\ IF DecodeFails(request.body)
       THEN /\ response' = HttpError(response, "Invalid request body", 400)
            /\ served' = [served EXCEPT !.pc = "done", !.handler = route]
            /\ UNCHANGED <<upstreamCalls, tracked>>
       ELSE IF request.body.stream THEN Streaming(route)
       ELSE NonStreaming(route)
    /\ UNCHANGED <<server, request>>
    /\ UNCHANGED <<streamVars, convVars, telVars, copilotVars>>

ChatCompletions == Generate("chat")

Responses == Generate("responses")

Messages == Generate("messages")

\* anthropic.go:352-391
CountTokens ==
    /\ served.pc = "mux"
    /\ request.method = "POST"
    /\ request.route = "count_tokens"
    /\ response' = IF DecodeFails(request.body)
                   THEN HttpError(response, "Invalid request body", 400)
                   ELSE Write(SetHeader(response, "Content-Type",
                                        "application/json"), "input_tokens")
    /\ served' = [served EXCEPT !.pc = "done", !.handler = "count_tokens"]
    /\ UNCHANGED <<server, request, upstreamCalls, tracked>>
    /\ UNCHANGED <<streamVars, convVars, telVars, copilotVars>>

\* Header values a client may send; the configured key is <<"secret">>.
AuthorizationValues ==
    {<<>>, <<"Bearer ", "secret">>, <<"Bearer ", "wrong">>,
     <<"Bearer ", "secret", "x">>, <<"bearer ", "secret">>, <<"secret">>}

XApiKeyValues == {<<>>, <<"secret">>, <<"wrong">>}

\* first: the first value of the body (a JSON object fitting the request
\* struct, a JSON value that does not fit it, text that is not JSON, or
\* nothing); rest: what follows the first value; stream: the object's
\* "stream" field.
Bodies ==
    {[first |-> "object", rest |-> r, stream |-> s] :
        r \in {"", "garbage"}, s \in BOOLEAN}
    \cup {[first |-> f, rest |-> "", stream |-> FALSE] :
            f \in {"mistyped", "malformed", "none"}}

Requests ==
    [method : {"POST", "GET", "OPTIONS"},
     route : {"chat", "responses", "messages", "count_tokens"},
     authorization : AuthorizationValues,
     xApiKey : XApiKeyValues,
     body : Bodies,
     flusher : BOOLEAN]

Servers == [apiKey : {<<>>, <<"secret">>}, langfuse : BOOLEAN]

InitHTTP ==
    /\ IdleStream
    /\ IdleTelemetry
    /\ IdleCopilot
    /\ server \in Servers
    /\ request \in Requests
    /\ response = NoResponse
    /\ served = [pc |-> "middleware", cors |-> FALSE, handler |-> "none"]
    /\ upstreamCalls = <<>>
    /\ tracked = <<>>

NextHTTP ==
    \/ apiKeyMiddleware
    \/ corsMiddleware
    \/ MethodNotAllowed
    \/ ChatCompletions
    \/ Responses
    \/ Messages
    \/ CountTokens

SpecHTTP == InitHTTP /\ [][NextHTTP]_vars

(***************************************************************************)
(* The telemetry client (part_000): the bounded event queue, the worker    *)
(* goroutine with its batch, the sendBatch goroutines that flush starts,   *)
(* and the callers of Track, TrackGeneration, Flush and Shutdown.  An      *)
(* event is the number of the Track call that offered it.                  *)
(***************************************************************************)
\* make(chan Event, 1000) (part_000:53), scaled down
QueueCap == 2
\* cfg.BatchSize (part_000:55)
BatchSize == 2
\* Calls of the client's methods in one behaviour.
MaxCalls == 3

LangfuseConfigs == [Enabled : BOOLEAN, PublicKey : {"", "pk"}, SecretKey : {"", "sk"}]

\* part_000:41
DisabledUnlessSwitchedOn(cfg) == ~cfg.Enabled
Disabled(cfg) == ~cfg.Enabled \/ cfg.PublicKey = "" \/ cfg.SecretKey = ""

\* part_000:40-64.  A disabled client has nil channels and no worker.
NewClient(cfg) ==
    IF Disabled(cfg)
    THEN [cfg |-> cfg, enabled |-> FALSE, events |-> <<>>, done |-> "nil",
          worker |-> FALSE, panicked |-> FALSE]
    ELSE [cfg |-> cfg, enabled |-> TRUE, events |-> <<>>, done |-> "open",
          worker |-> TRUE, panicked |-> FALSE]

NoCalls == [Track |-> 0, TrackGeneration |-> 0, Flush |-> 0, Shutdown |-> 0]

CallsMade ==
    clientCalls.Track + clientCalls.TrackGeneration + clientCalls.Flush
        + clientCalls.Shutdown

\* events offered to the queue so far
Offered == clientCalls.Track + 2 * clientCalls.TrackGeneration

\* part_000:84-89: select { case c.events <- event: default: }
OfferUnbounded(queue, event) == Append(queue, event)
Offer(queue, event) ==
    IF Len(queue) < QueueCap THEN Append(queue, event) ELSE queue

\* c.enabled is read without c.mu (part_000:80, 94, 217) while Shutdown
\* writes it under the lock (part_000:236): a read racing with that write
\* may still see true.
SeenEnabled ==
    IF langfuse.worker /\ ~langfuse.enabled THEN BOOLEAN ELSE {langfuse.enabled}

\* part_000:79-90
Track ==
    /\ CallsMade < MaxCalls
    /\ clientCalls' = [clientCalls EXCEPT !.Track = @ + 1]
    /\ \E enabled \in SeenEnabled :
          langfuse' = IF enabled
                      THEN [langfuse EXCEPT !.events = Offer(@, Offered + 1)]
                      ELSE langfuse
    /\ UNCHANGED <<worker, sends, ingested, shutdown>>
    /\ UNCHANGED <<streamVars, convVars, httpVars, copilotVars>>

\* part_000:93-117: the trace event, then the generation event
TrackGeneration ==
    /\ CallsMade < MaxCalls
    /\ clientCalls' = [clientCalls EXCEPT !.TrackGeneration = @ + 1]
    /\ \E enabled \in SeenEnabled :
          langfuse' = IF enabled
                      THEN [langfuse EXCEPT
                              !.events = Offer(Offer(@, Offered + 1), Offered + 2)]
                      ELSE langfuse
    /\ UNCHANGED <<worker, sends, ingested, shutdown>>
    /\ UNCHANGED <<streamVars, convVars, httpVars, copilotVars>>

\* part_000:128-147 flush: the batch is copied and handed to a new goroutine
\* that calls sendBatch; flush itself does not wait for it.
Flushed(batch) ==
    IF batch = <<>> THEN sends
    ELSE sends \cup {[events |-> batch, state |-> "started"]}

\* part_000:151-155: case event := <-c.events
WorkerReceive ==
    /\ worker.pc = "select"
    /\ langfuse.events # <<>>
    /\ langfuse' = [langfuse EXCEPT !.events = Tail(@)]
    /\ LET batch == Append(worker.batch, Head(langfuse.events))
       IN  IF Len(batch) >= BatchSize
           THEN /\ sends' = Flushed(batch)
                /\ worker' = [worker EXCEPT !.batch = <<>>]
           ELSE /\ worker' = [worker EXCEPT !.batch = batch]
                /\ UNCHANGED sends
    /\ UNCHANGED <<ingested, shutdown, clientCalls>>
    /\ UNCHANGED <<streamVars, convVars, httpVars, copilotVars>>

\* part_000:156-157: case <-ticker.C
WorkerTick ==
    /\ worker.pc = "select"
    /\ worker.batch # <<>>
    /\ sends' = Flushed(worker.batch)
    /\ worker' = [worker EXCEPT !.batch = <<>>]
    /\ UNCHANGED <<langfuse, ingested, shutdown, clientCalls>>
    /\ UNCHANGED <<streamVars, convVars, httpVars, copilotVars>>

\* part_000:158: case <-c.done
WorkerDone ==
    /\ worker.pc = "select"
    /\ langfuse.done = "closed"
    /\ worker' = [worker EXCEPT !.pc = "drain"]
    /\ UNCHANGED <<langfuse, sends, ingested, shutdown, clientCalls>>
    /\ UNCHANGED <<streamVars, convVars, httpVars, copilotVars>>

\* part_000:160-168: drain the queue, flush, return (wg.Done)
WorkerDrain ==
    /\ worker.pc = "drain"
    /\ IF langfuse.events # <<>>
       THEN /\ langfuse' = [langfuse EXCEPT !.events = Tail(@)]
            /\ worker' = [worker EXCEPT
                            !.batch = Append(@, Head(langfuse.events))]
            /\ UNCHANGED sends
       ELSE /\ sends' = Flushed(worker.batch)
            /\ worker' = [pc |-> "exited", batch |-> <<>>]
            /\ UNCHANGED langfuse
    /\ UNCHANGED <<ingested, shutdown, clientCalls>>
    /\ UNCHANGED <<streamVars, convVars, httpVars, copilotVars>>

\* part_000:137-146, 174-213: one goroutine's sendBatch call completes; the
\* ingestion API has the events unless the request failed or was answered
\* with a status >= 400.
SendBatch ==
    \E send \in sends, ok \in BOOLEAN :
        /\ send.state = "started"
        /\ sends' = (sends \ {send})
                        \cup {[send EXCEPT !.state = IF ok THEN "sent" ELSE "failed"]}
        /\ ingested' = IF ok
                       THEN ingested \cup {send.events[j] : j \in DOMAIN send.events}
                       ELSE ingested
        /\ UNCHANGED <<langfuse, worker, shutdown, clientCalls>>
        /\ UNCHANGED <<streamVars, convVars, httpVars, copilotVars>>

\* part_000:216-223: time.Sleep(100 * time.Millisecond) on an enabled client
Flush ==
    /\ CallsMade < MaxCalls
    /\ clientCalls' = [clientCalls EXCEPT !.Flush = @ + 1]
    /\ \E enabled \in SeenEnabled :
          now' = IF enabled THEN now + 100 ELSE now
    /\ UNCHANGED <<langfuse, worker, sends, ingested, shutdown>>
    /\ UNCHANGED <<streamVars, convVars, httpVars>>
    /\ UNCHANGED <<creds, credsFile, modelsCache, fetches, ret, mu, reqs>>

\* the events in the queue or in the worker's batch
Pending ==
    {langfuse.events[i] : i \in DOMAIN langfuse.events}
        \cup {worker.batch[i] : i \in DOMAIN worker.batch}

\* part_000:226-240, up to wg.Wait().  The check under the lock decides;
\* close of a nil or closed channel panics.
ShutdownCall ==
    /\ CallsMade < MaxCalls
    /\ clientCalls' = [clientCalls EXCEPT !.Shutdown = @ + 1]
    /\ IF ~langfuse.enabled
       THEN UNCHANGED <<langfuse, shutdown>>
       ELSE /\ langfuse' = [langfuse EXCEPT
                              !.enabled = FALSE,
                              !.done = "closed",
                              !.panicked = (langfuse.done # "open")]
            /\ shutdown' = [pc |-> "waiting", pending |-> Pending]
    /\ UNCHANGED <<worker, sends, ingested>>
    /\ UNCHANGED <<streamVars, convVars, httpVars, copilotVars>>

\* part_000:240-242: wg.Wait() returns once the worker has returned
ShutdownReturn ==
    /\ shutdown.pc = "waiting"
    /\ worker.pc = "exited"
    /\ shutdown' = [shutdown EXCEPT !.pc = "returned"]
    /\ UNCHANGED <<langfuse, worker, sends, ingested, clientCalls>>
    /\ UNCHANGED <<streamVars, convVars, httpVars, copilotVars>>

InitTelemetry ==
    /\ IdleStream
    /\ IdleHTTP
    /\ IdleCopilot
    /\ langfuse \in {NewClient(cfg) : cfg \in LangfuseConfigs}
    /\ worker = [pc |-> IF langfuse.worker THEN "select" ELSE "none",
                 batch |-> <<>>]
    /\ sends = {}
    /\ ingested = {}
    /\ shutdown = [pc |-> "idle", pending |-> {}]
    /\ clientCalls = NoCalls

NextTelemetry ==
    \/ Track
    \/ TrackGeneration
    \/ Flush
    \/ ShutdownCall
    \/ ShutdownReturn
    \/ WorkerReceive
    \/ WorkerTick
    \/ WorkerDone
    \/ WorkerDrain
    \/ SendBatch

SpecTelemetry == InitTelemetry /\ [][NextTelemetry]_vars

(***************************************************************************)
(* The Copilot token (part_004 Manager.GetCopilotToken) and the models     *)
(* cache (aliases.go Client.FetchModels).  Time is time.Now() in           *)
(* milliseconds and passes in ticks.                                       *)
(***************************************************************************)
\* part_002:25 (5 minutes in milliseconds)
RefreshBufferMS == 300000
\* part_002:22 (seconds)
ModelsCacheTTL == 300
\* Milliseconds of one tick, half the refresh buffer and half the TTL.
TickMS == 150000
\* Ticks in one behaviour.
MaxTicks == 4

\* What the token endpoint and SaveCredentials can do on a refresh.
TokenOutcomes ==
    {[kind |-> k] : k \in {"transport", "unauthorized", "status", "decode"}}
    \cup [kind : {"ok"}, token : {"tok2", ""}, expires_at : {300, 900},
          saved : BOOLEAN]

\* part_004:414
TokenValidUntilExpiry(c, t) ==
    c.CopilotToken # "" /\ c.CopilotExpires > t
TokenValid(c, t) ==
    c.CopilotToken # "" /\ c.CopilotExpires > t + RefreshBufferMS

\* part_004:410-461: what GetCopilotToken returns, the credentials and the
\* credentials file it leaves and the upstream requests it made, at time t,
\* when the refresh (if one is made) ends as o
TokenResult(c, file, t, o) ==
    IF TokenValid(c, t)
    THEN [token |-> c.CopilotToken, err |-> "nil", creds |-> c, file |-> file,
          fetches |-> <<>>]
    ELSE IF o.kind # "ok"
    THEN [token |-> "", err |-> o.kind, creds |-> c, file |-> file,
          fetches |-> <<"token">>]
    ELSE LET refreshed == [c EXCEPT !.CopilotToken = o.token,
                                    !.CopilotExpires = o.expires_at * 1000]
         IN  IF o.saved
             THEN [token |-> o.token, err |-> "nil", creds |-> refreshed,
                   file |-> refreshed, fetches |-> <<"token">>]
             ELSE [token |-> "", err |-> "save", creds |-> refreshed,
                   file |-> file, fetches |-> <<"token">>]

\* A refresh happens, and ends in some way, only without a valid token.
RefreshOutcomes(c, t) ==
    IF TokenValid(c, t) THEN {[kind |-> "none"]} ELSE TokenOutcomes

GetCopilotToken ==
    \E o \in RefreshOutcomes(creds, now) :
        LET r == TokenResult(creds, credsFile, now, o)
        IN  /\ creds' = r.creds
            /\ credsFile' = r.file
            /\ fetches' = r.fetches
            /\ ret' = [op |-> "GetCopilotToken", at |-> now, had |-> creds,
                       token |-> r.token, err |-> r.err]
            /\ UNCHANGED <<now, modelsCache, mu, reqs>>
            /\ UNCHANGED <<streamVars, convVars, httpVars, telVars>>

\* aliases.go:46-56
FallbackModels ==
    <<"gpt-4o", "gpt-4.1", "claude-sonnet-4", "claude-sonnet-4.5", "gemini-2.5-pro">>

\* Model ids the upstream lists, as pieces; strings.ToLower of a piece.
UpstreamModelLists ==
    {<<>>,
     <<<<"gpt-4o">>>>,
     <<<<"gpt-4o">>, <<"text-", "Embedding", "-3">>>>,
     <<<<"oswe-", "vscode">>, <<"claude-sonnet-4">>>>}

ToLower(piece) == IF piece = "Embedding" THEN "embedding" ELSE piece

\* aliases.go:158-166
Listed(id) ==
    /\ ~Contains([i \in DOMAIN id |-> ToLower(id[i])], "embedding")
    /\ ~HasPrefix(id, "oswe-")

\* What GET /models can end as (aliases.go:137-154).
ModelsOutcomes ==
    {[kind |-> k] : k \in {"transport", "status", "decode"}}
    \cup {[kind |-> "ok", data |-> d] : d \in UpstreamModelLists}

\* aliases.go:109
CacheFreshWhenSet(cache, t) == cache.set
CacheFresh(cache, t) ==
    cache.set /\ (t - cache.time) < ModelsCacheTTL * 1000

\* aliases.go:107-198
FetchModels ==
    IF CacheFresh(modelsCache, now)
    THEN /\ ret' = [op |-> "FetchModels", at |-> now, had |-> modelsCache,
                    models |-> modelsCache.list, err |-> "nil", failed |-> FALSE]
         /\ fetches' = <<>>
         /\ UNCHANGED <<now, creds, credsFile, modelsCache, mu, reqs>>
         /\ UNCHANGED <<streamVars, convVars, httpVars, telVars>>
    ELSE \E credsOk \in BOOLEAN :
         \E o \in IF credsOk THEN RefreshOutcomes(creds, now)
                  ELSE {[kind |-> "none"]} :
         \E m \in IF credsOk /\ TokenResult(creds, credsFile, now, o).err = "nil"
                  THEN ModelsOutcomes ELSE {[kind |-> "none"]} :
         LET r == TokenResult(creds, credsFile, now, o)
             fallback == [op |-> "FetchModels", at |-> now, had |-> modelsCache,
                          models |-> FallbackModels, err |-> "nil",
                          failed |-> TRUE]
         IN  /\ IF ~credsOk
                THEN /\ ret' = fallback
                     /\ fetches' = <<>>
                     /\ UNCHANGED <<creds, credsFile, modelsCache>>
                ELSE IF r.err # "nil"
                THEN /\ ret' = fallback
                     /\ fetches' = r.fetches
                     /\ creds' = r.creds
                     /\ credsFile' = r.file
                     /\ UNCHANGED modelsCache
                ELSE IF m.kind # "ok"
                THEN /\ ret' = fallback
                     /\ fetches' = Append(r.fetches, "models")
                     /\ creds' = r.creds
                     /\ credsFile' = r.file
                     /\ UNCHANGED modelsCache
                ELSE LET result == SelectSeq(m.data, Listed)
                     IN  /\ ret' = [fallback EXCEPT !.models = result,
                                                    !.failed = FALSE]
                         /\ fetches' = Append(r.fetches, "models")
                         /\ creds' = r.creds
                         /\ credsFile' = r.file
                         /\ modelsCache' = [set |-> TRUE, list |-> result,
                                            time |-> now]
             /\ UNCHANGED <<now, mu, reqs>>
             /\ UNCHANGED <<streamVars, convVars, httpVars, telVars>>

Tick ==
    /\ now < MaxTicks * TickMS
    /\ now' = now + TickMS
    /\ UNCHANGED <<creds, credsFile, modelsCache, fetches, ret, mu, reqs>>
    /\ UNCHANGED <<streamVars, convVars, httpVars, telVars>>

\* The credentials a caller starts with, as loaded from the file.
StoredCredentials ==
    [CopilotToken : {"", "tok1"}, CopilotExpires : {0, 300000, 450000}]

InitCopilot ==
    /\ IdleStream
    /\ IdleHTTP
    /\ IdleTelemetry
    /\ now = 0
    /\ creds \in StoredCredentials
    /\ credsFile = creds
    /\ modelsCache = [set |-> FALSE, list |-> <<>>, time |-> 0]
    /\ fetches = <<>>
    /\ ret = [op |-> "none"]
    /\ mu = Unused
    /\ reqs = <<>>

NextCopilot ==
    \/ GetCopilotToken
    \/ FetchModels
    \/ Tick

SpecCopilot == InitCopilot /\ [][NextCopilot]_vars

(***************************************************************************)
(* The Manager under concurrent requests (part_004).  Every request        *)
(* handler calls GetCredentials and then GetCopilotToken on the one        *)
(* Manager (aliases.go:283-292); the requests share the *Credentials       *)
(* that m.credentials points to.  One action is one access of shared       *)
(* state by one request.                                                   *)
(***************************************************************************)
\* Requests in flight at once.
MaxRequests == 2

Callers == 1..MaxRequests

\* sync.RWMutex: writer is the request holding Lock (0 for none), readers the
\* requests holding RLock
Unlocked == [writer |-> 0, readers |-> {}]
Holds(r) == mu.writer = r \/ r \in mu.readers

\* What the token endpoint answers to the refresh of request r: every
\* answer carries a new token and its own expiry (seconds).
TokenResponse(r) ==
    [Token |-> "tok" \o ToString(r), ExpiresAt |-> 900 + 300 * r]

\* The request r before its calls.  accessed lists the accesses of the
\* CopilotToken and CopilotExpires fields the request made, each with whether
\* the request held m.mu.
NewRequest ==
    [pc |-> "GetCredentials", token |-> "", expires |-> 0,
     tokenResp |-> Unused, accessed |-> {}, ret |-> Unused]

Access(r, op, field) == [op |-> op, field |-> field, locked |-> Holds(r)]

\* part_004:281-286: m.mu.RLock(); m.credentials is set and has a GitHub
\* token
GetCredentialsRLock(r) ==
    /\ reqs[r].pc = "GetCredentials"
    /\ mu.writer = 0
    /\ mu' = [mu EXCEPT !.readers = @ \cup {r}]
    /\ reqs' = [reqs EXCEPT ![r].pc = "RUnlock"]
    /\ UNCHANGED <<now, creds, credsFile, modelsCache, fetches, ret>>
    /\ UNCHANGED <<streamVars, convVars, httpVars, telVars>>

\* part_004:283-285: creds := m.credentials; m.mu.RUnlock(); return creds
GetCredentialsRUnlock(r) ==
    /\ reqs[r].pc = "RUnlock"
    /\ mu' = [mu EXCEPT !.readers = @ \ {r}]
    /\ reqs' = [reqs EXCEPT ![r].pc = "ReadToken"]
    /\ UNCHANGED <<now, creds, credsFile, modelsCache, fetches, ret>>
    /\ UNCHANGED <<streamVars, convVars, httpVars, telVars>>

\* part_004:414, left operand: creds.CopilotToken != ""
ReadToken(r) ==
    /\ reqs[r].pc = "ReadToken"
    /\ reqs' = [reqs EXCEPT
                  ![r].token = creds.CopilotToken,
                  ![r].accessed = @ \cup {Access(r, "read", "CopilotToken")},
                  ![r].pc = IF creds.CopilotToken # "" THEN "ReadExpires"
                            ELSE "TokenRequest"]
    /\ UNCHANGED <<now, creds, credsFile, modelsCache, fetches, ret, mu>>
    /\ UNCHANGED <<streamVars, convVars, httpVars, telVars>>

\* part_004:414, right operand: creds.CopilotExpires > currentTimeMS + buffer
ReadExpires(r) ==
    /\ reqs[r].pc = "ReadExpires"
    /\ reqs' = [reqs EXCEPT
                  ![r].expires = creds.CopilotExpires,
                  ![r].accessed = @ \cup {Access(r, "read", "CopilotExpires")},
                  ![r].pc = IF TokenValid([CopilotToken |-> reqs[r].token,
                                           CopilotExpires |-> creds.CopilotExpires],
                                          now)
                            THEN "ReturnToken" ELSE "TokenRequest"]
    /\ UNCHANGED <<now, creds, credsFile, modelsCache, fetches, ret, mu>>
    /\ UNCHANGED <<streamVars, convVars, httpVars, telVars>>

\* part_004:415: return creds.CopilotToken, nil
ReturnToken(r) ==
    /\ reqs[r].pc = "ReturnToken"
    /\ reqs' = [reqs EXCEPT
                  ![r].ret = [token |-> creds.CopilotToken, err |-> "nil"],
                  ![r].accessed = @ \cup {Access(r, "read", "CopilotToken")},
                  ![r].pc = "done"]
    /\ UNCHANGED <<now, creds, credsFile, modelsCache, fetches, ret, mu>>
    /\ UNCHANGED <<streamVars, convVars, httpVars, telVars>>

\* part_004:422-451: the token request; it fails or its answer is decoded
TokenRequest(r) ==
    /\ reqs[r].pc = "TokenRequest"
    /\ \E ok \in BOOLEAN :
          reqs' = IF ok
                  THEN [reqs EXCEPT ![r].tokenResp = TokenResponse(r),
                                    ![r].pc = "WriteToken"]
                  ELSE [reqs EXCEPT ![r].ret = [token |-> "", err |-> "token"],
                                    ![r].pc = "done"]
    /\ UNCHANGED <<now, creds, credsFile, modelsCache, fetches, ret, mu>>
    /\ UNCHANGED <<streamVars, convVars, httpVars, telVars>>

\* part_004:453: creds.CopilotToken = tokenResp.Token
WriteToken(r) ==
    /\ reqs[r].pc = "WriteToken"
    /\ creds' = [creds EXCEPT !.CopilotToken = reqs[r].tokenResp.Token]
    /\ reqs' = [reqs EXCEPT
                  ![r].accessed = @ \cup {Access(r, "write", "CopilotToken")},
                  ![r].pc = "WriteExpires"]
    /\ UNCHANGED <<now, credsFile, modelsCache, fetches, ret, mu>>
    /\ UNCHANGED <<streamVars, convVars, httpVars, telVars>>

\* part_004:454: creds.CopilotExpires = tokenResp.ExpiresAt * 1000
WriteExpires(r) ==
    /\ reqs[r].pc = "WriteExpires"
    /\ creds' = [creds EXCEPT !.CopilotExpires = reqs[r].tokenResp.ExpiresAt * 1000]
    /\ reqs' = [reqs EXCEPT
                  ![r].accessed = @ \cup {Access(r, "write", "CopilotExpires")},
                  ![r].pc = "SaveCredentials"]
    /\ UNCHANGED <<now, credsFile, modelsCache, fetches, ret, mu>>
    /\ UNCHANGED <<streamVars, convVars, httpVars, telVars>>

\* part_004:263: m.mu.Lock()
SaveCredentialsLock(r) ==
    /\ reqs[r].pc = "SaveCredentials"
    /\ mu = Unlocked
    /\ mu' = [mu EXCEPT !.writer = r]
    /\ reqs' = [reqs EXCEPT ![r].pc = "WriteFile"]
    /\ UNCHANGED <<now, creds, credsFile, modelsCache, fetches, ret>>
    /\ UNCHANGED <<streamVars, convVars, httpVars, telVars>>

\* part_004:264-276 and 456-460: json.Marshal(creds) reads the fields, the
\* file is written or not, the deferred Unlock runs, GetCopilotToken returns
SaveCredentialsWrite(r) ==
    /\ reqs[r].pc = "WriteFile"
    /\ \E saved \in BOOLEAN :
          /\ credsFile' = IF saved THEN creds ELSE credsFile
          /\ reqs' = [reqs EXCEPT
                        ![r].accessed = @ \cup {Access(r, "read", "CopilotToken"),
                                                Access(r, "read", "CopilotExpires")},
                        ![r].ret = IF saved
                                   THEN [token |-> reqs[r].tokenResp.Token,
                                         err |-> "nil"]
                                   ELSE [token |-> "", err |-> "save"],
                        ![r].pc = "done"]
    /\ mu' = Unlocked
    /\ UNCHANGED <<now, creds, modelsCache, fetches, ret>>
    /\ UNCHANGED <<streamVars, convVars, httpVars, telVars>>

\* The credentials m.credentials points to when the requests arrive: loaded
\* from the file, with no Copilot token yet or with the token and expiry of
\* an earlier refresh.
LoadedCredentials ==
    {[CopilotToken |-> "", CopilotExpires |-> 0],
     [CopilotToken |-> "tok0", CopilotExpires |-> 300000],
     [CopilotToken |-> "tok0", CopilotExpires |-> 450000]}

InitManager ==
    /\ IdleStream
    /\ IdleHTTP
    /\ IdleTelemetry
    /\ now = 0
    /\ creds \in LoadedCredentials
    /\ credsFile = creds
    /\ modelsCache = Unused
    /\ fetches = <<>>
    /\ ret = Unused
    /\ mu = Unlocked
    /\ reqs = [r \in Callers |-> NewRequest]

NextManager ==
    \/ \E r \in Callers : GetCredentialsRLock(r)
    \/ \E r \in Callers : GetCredentialsRUnlock(r)
    \/ \E r \in Callers : ReadToken(r)
    \/ \E r \in Callers : ReadExpires(r)
    \/ \E r \in Callers : ReturnToken(r)
    \/ \E r \in Callers : TokenRequest(r)
    \/ \E r \in Callers : WriteToken(r)
    \/ \E r \in Callers : WriteExpires(r)
    \/ \E r \in Callers : SaveCredentialsLock(r)
    \/ \E r \in Callers : SaveCredentialsWrite(r)

SpecManager == InitManager /\ [][NextManager]_vars

(***************************************************************************)
(* Properties                                                              *)
(***************************************************************************)
\* how many events of seq satisfy type t
RECURSIVE CountType(_, _)
CountType(seq, t) ==
    IF seq = <<>> THEN 0
    ELSE (IF Head(seq).type = t THEN 1 ELSE 0) + CountType(Tail(seq), t)

\* the events of seq whose type is in ts, in order
SelectTypes(seq, ts) == SelectSeq(seq, LAMBDA e : e.type \in ts)

\* the goroutine has left the handler: it returned, or a panic unwound it
Finished == pc \in {"done", "panicked"}

ReadErrors == {"read error: context canceled", "read error: unexpected EOF"}

\* the line is a JSON chunk
IsChunk(l) == l.kind = "data" /\ l.json

\* the finish_reason of the chunk's first choice ("" when there is none)
LineFinishReason(l) ==
    IF IsChunk(l) /\ HasKey(l.chunk, "choices") /\ Len(l.chunk.choices) > 0
       /\ IsObject(l.chunk.choices[1])
    THEN StrOr(l.chunk.choices[1], "finish_reason")
    ELSE ""

\* the text delta of the chunk's first choice ("" when there is none)
LineText(l) ==
    IF IsChunk(l) /\ HasKey(l.chunk, "choices") /\ Len(l.chunk.choices) > 0
       /\ IsObject(l.chunk.choices[1]) /\ HasKey(l.chunk.choices[1], "delta")
       /\ HasKey(l.chunk.choices[1].delta, "content")
    THEN l.chunk.choices[1].delta.content
    ELSE ""

\* the chunk carries a tool_calls delta
LineHasToolCalls(l) ==
    /\ IsChunk(l) /\ HasKey(l.chunk, "choices") /\ Len(l.chunk.choices) > 0
    /\ IsObject(l.chunk.choices[1]) /\ HasKey(l.chunk.choices[1], "delta")
    /\ HasKey(l.chunk.choices[1].delta, "tool_calls")

\* the chunk carries a usage object
LineHasUsage(l) == IsChunk(l) /\ HasKey(l.chunk, "usage")

----------------------------------------------------------------------------
\* C1: every Anthropic streaming response, whatever upstream sends or however
\* the upstream call fails, starts with exactly one message_start immediately
\* followed by content_block_start(0, text) and ends with content_block_stop,
\* message_delta and exactly one message_stop as the last event.
AnthropicFramed(o) ==
    /\ Len(o) >= 5
    /\ SubSeq(o, 1, 2) = <<MessageStart, TextBlockStart(0)>>
    /\ o[Len(o) - 2].type = "content_block_stop"
    /\ o[Len(o) - 1].type = "message_delta"
    /\ o[Len(o)] = MessageStop
    /\ CountType(o, "message_start") = 1
    /\ CountType(o, "message_stop") = 1

C1_AnthropicAlwaysFramed ==
    (handler = "anthropic" /\ Finished) => AnthropicFramed(out)

\* What does hold: a response whose handler returned is framed.
AnthropicFramedOnReturn ==
    (handler = "anthropic" /\ pc = "done") => AnthropicFramed(out)

----------------------------------------------------------------------------
\* C2: in the Anthropic sequencer the indexes of content_block_stop events are
\* strictly increasing, each content_block_stop carries the index of the
\* immediately preceding content_block_start, between two chunks exactly one
\* more content_block_start than content_block_stop has been emitted, and
\* after End the two counts are equal.
BlockEvents(o) == SelectTypes(o, {"content_block_start", "content_block_stop"})

StopsIncreasing(o) ==
    LET stops == SelectTypes(o, {"content_block_stop"})
    IN \A i \in 1..Len(stops) - 1 : stops[i].index < stops[i + 1].index

StopMatchesStart(o) ==
    LET b == BlockEvents(o)
    IN \A i \in 1..Len(b) :
          b[i].type = "content_block_stop" =>
             /\ i > 1
             /\ \E j \in 1..(i - 1) :
                   /\ b[j].type = "content_block_start"
                   /\ \A k \in (j + 1)..(i - 1) : b[k].type # "content_block_start"
                   /\ b[j].index = b[i].index

C2_BlockOrderInvariant ==
    handler = "anthropic" =>
       /\ StopsIncreasing(out)
       /\ StopMatchesStart(out)
       /\ pc \in {"read", "end"} =>
             CountType(out, "content_block_start")
                = CountType(out, "content_block_stop") + 1
       /\ pc = "done" =>
             CountType(out, "content_block_start")
                = CountType(out, "content_block_stop")

----------------------------------------------------------------------------
\* C3: every Responses streaming response emits exactly response.created,
\* response.output_item.added, response.content_part.added, any number of
\* response.output_text.delta, response.output_text.done,
\* response.content_part.done, response.output_item.done, response.completed,
\* whatever upstream sends or however the upstream call fails.
ResponsesOrdered(o) ==
    /\ Len(o) >= 7
    /\ [i \in 1..3 |-> o[i].type]
          = <<"response.created", "response.output_item.added",
              "response.content_part.added">>
    /\ \A i \in 4..(Len(o) - 4) : o[i].type = "response.output_text.delta"
    /\ [i \in 1..4 |-> o[Len(o) - 4 + i].type]
          = <<"response.output_text.done", "response.content_part.done",
              "response.output_item.done", "response.completed">>

C3_ResponsesAlwaysOrdered ==
    (handler = "responses" /\ Finished) => ResponsesOrdered(out)

\* What does hold: a response whose handler returned is ordered.
ResponsesOrderedOnReturn ==
    (handler = "responses" /\ pc = "done") => ResponsesOrdered(out)

----------------------------------------------------------------------------
\* C4: every chat-completions streaming response whose upstream stream was
\* opened ends with data: [DONE], written exactly once, also when the stream
\* is cut by a read error or carries data lines after its [DONE].
C4_ChatEndsWithDone ==
    (handler = "chat" /\ pc = "done" /\ err \in ReadErrors \cup {"nil"}) =>
       /\ out # <<>>
       /\ out[Len(out)] = DoneEvent
       /\ CountType(out, "[DONE]") = 1

----------------------------------------------------------------------------
\* what the callbacks make of the lines read so far, starting from the
\* accumulator the handler sets up before the stream
RECURSIVE AnthropicReplay(_, _)
AnthropicReplay(acc, ls) ==
    IF ls = <<>> THEN acc
    ELSE AnthropicReplay(IF Head(ls) = BlankLine THEN acc
                         ELSE AnthropicCallback(acc, Head(ls)), Tail(ls))

RECURSIVE ResponsesReplay(_, _)
ResponsesReplay(acc, ls) ==
    IF ls = <<>> THEN acc
    ELSE ResponsesReplay(IF Head(ls) = BlankLine THEN acc
                         ELSE ResponsesCallback(acc, Head(ls)), Tail(ls))

AnthropicAcc0 ==
    [idx |-> 0, hasText |-> FALSE, tcip |-> EmptyObj, stop |-> "end_turn",
     usage |-> ZeroAnthropicUsage, out |-> <<MessageStart, TextBlockStart(0)>>,
     panicked |-> FALSE]

ResponsesAcc0 ==
    [usage |-> ZeroResponsesUsage, text |-> "",
     out |-> <<ResponseCreated, OutputItemAdded, ContentPartAdded>>,
     panicked |-> FALSE]

ProtocolEventTypes ==
    {"message_start", "content_block_start", "content_block_delta",
     "content_block_stop", "message_delta", "message_stop",
     "response.created", "response.output_item.added",
     "response.content_part.added", "response.output_text.delta",
     "response.output_text.done", "response.content_part.done",
     "response.output_item.done", "response.completed"}

\* C5: when the upstream stream fails with a read error after k chunks, the
\* Anthropic and the Responses sequencer still run their End sequence, the End
\* events carry exactly what the k chunks accumulated (block index, stop
\* reason, usage, full text), the error reaches telemetry with level ERROR, and
\* nothing but protocol events is written to the client.
C5_EndRunsAfterReadError ==
    (pc = "done" /\ err \in ReadErrors /\ handler \in {"anthropic", "responses"}) =>
       /\ handler = "anthropic" =>
             LET a == AnthropicReplay(AnthropicAcc0, lines)
             IN out = a.out \o <<BlockStop(a.idx), MessageDelta(a.stop, a.usage),
                                 MessageStop>>
       /\ handler = "responses" =>
             LET a == ResponsesReplay(ResponsesAcc0, lines)
             IN out = a.out \o <<OutputTextDone(a.text), ContentPartDone(a.text),
                                 OutputItemDone(a.text),
                                 ResponseCompleted(a.text, a.usage)>>
       /\ gen.called /\ gen.level = "ERROR" /\ gen.statusMessage = err
       /\ \A i \in 1..Len(out) : out[i].type \in ProtocolEventTypes

C5_Witness ==
    /\ pc = "done" /\ err \in ReadErrors /\ handler = "anthropic"
    /\ Len(lines) = 3 /\ contentBlockIndex = 1 /\ stopReason = "tool_use"
    /\ out[Len(out) - 1].stop_reason = "tool_use"
    /\ gen.called /\ gen.level = "ERROR"

----------------------------------------------------------------------------
\* C6: once the cancellation of the request context has been observed (the
\* stream call returned the error the cancel caused), nothing more is written
\* to the client.
CancelObserved == ctxCanceled /\ err # "nil"

C6_NoWriteAfterCancel == [][CancelObserved => out' = out]_vars

----------------------------------------------------------------------------
\* C7: for an Anthropic stream whose chunks carry only text deltas, the output
\* is exactly message_start, content_block_start(0), one
\* content_block_delta(0, text_delta) per chunk with a non-empty text, in chunk
\* order and with that chunk's text, content_block_stop(0),
\* message_delta(stop_reason = end_turn), message_stop.
TextOnly(ls) ==
    \A i \in 1..Len(ls) :
       ~LineHasToolCalls(ls[i]) /\ LineFinishReason(ls[i]) # "tool_calls"

RECURSIVE ExpectedTextDeltas(_)
ExpectedTextDeltas(ls) ==
    IF ls = <<>> THEN <<>>
    ELSE (IF LineText(Head(ls)) # "" THEN <<TextDelta(0, LineText(Head(ls)))>>
          ELSE <<>>) \o ExpectedTextDeltas(Tail(ls))

C7_TextOnlySequence ==
    (handler = "anthropic" /\ pc = "done" /\ TextOnly(lines)) =>
       LET n == Len(out)
       IN /\ n >= 5
          /\ SubSeq(out, 1, n - 3)
                = <<MessageStart, TextBlockStart(0)>> \o ExpectedTextDeltas(lines)
          /\ out[n - 2] = BlockStop(0)
          /\ out[n - 1].type = "message_delta"
          /\ out[n - 1].stop_reason = "end_turn"
          /\ out[n] = MessageStop

C7_Witness ==
    /\ handler = "anthropic" /\ pc = "done" /\ TextOnly(lines)
    /\ Len(lines) = 3
    /\ LineText(lines[1]) = "Hel" /\ LineText(lines[2]) = "lo"
    /\ LineFinishReason(lines[2]) = "stop"
    /\ IsChunk(lines[3]) /\ LineText(lines[3]) = ""
    /\ Len(out) = 7

----------------------------------------------------------------------------
\* C8: the stop reason is sticky.  It is tool_use exactly when some processed
\* chunk had finish_reason tool_calls, whatever later chunks carry, and
\* end_turn otherwise; the final message_delta carries it.
SawToolCallsFinish(ls) ==
    \E i \in 1..Len(ls) : LineFinishReason(ls[i]) = "tool_calls"

C8_StopReasonSticky ==
    (handler = "anthropic" /\ pc \in {"read", "end", "done"}) =>
       /\ stopReason = IF SawToolCallsFinish(lines) THEN "tool_use" ELSE "end_turn"
       /\ pc = "done" =>
             /\ out[Len(out) - 1].type = "message_delta"
             /\ out[Len(out) - 1].stop_reason = stopReason

C8_Witness ==
    /\ handler = "anthropic" /\ pc = "done"
    /\ Len(lines) = 3
    /\ LineFinishReason(lines[1]) = "tool_calls"
    /\ LineFinishReason(lines[2]) = "stop"
    /\ LineFinishReason(lines[3]) = "length"
    /\ out[Len(out) - 1].stop_reason = "tool_use"

----------------------------------------------------------------------------
\* C9: in both sequencers the usage of the final event equals the usage the
\* last chunk with a usage object reported (a counter that object does not
\* report counts as 0), and is all zero when no chunk carried usage.
LastUsageIndex(ls) ==
    LET S == {i \in 1..Len(ls) : LineHasUsage(ls[i])}
    IN IF S = {} THEN 0 ELSE CHOOSE i \in S : \A j \in S : j <= i

Reported(us, k) == IF HasKey(us, k) THEN us[k] ELSE 0
ReportedCached(us) ==
    IF HasKey(us, "prompt_tokens_details")
       /\ HasKey(us.prompt_tokens_details, "cached_tokens")
    THEN us.prompt_tokens_details.cached_tokens ELSE 0

C9_FinalUsageIsLastSnapshot ==
    (pc = "done" /\ handler \in {"anthropic", "responses"}) =>
       LET i == LastUsageIndex(lines)
           us == IF i = 0 THEN EmptyObj ELSE lines[i].chunk.usage
           final == out[Len(out) - (IF handler = "anthropic" THEN 1 ELSE 0)]
       IN IF handler = "anthropic"
          THEN /\ final.output_tokens = Reported(us, "completion_tokens")
               /\ final.cache_read_input_tokens = ReportedCached(us)
          ELSE final.usage =
                  [input_tokens |-> Reported(us, "prompt_tokens"),
                   output_tokens |-> Reported(us, "completion_tokens"),
                   total_tokens |-> Reported(us, "total_tokens"),
                   cached_tokens |-> ReportedCached(us)]

----------------------------------------------------------------------------
\* C10: whenever choices[0].message has a non-empty tool_calls list,
\* ConvertOpenAIResponseToAnthropic returns stop_reason tool_use, for every
\* finish_reason.
ConvHasToolCalls(resp) ==
    /\ Len(resp.choices) > 0
    /\ IsObject(resp.choices[1])
    /\ HasKey(resp.choices[1].message, "tool_calls")
    /\ Len(resp.choices[1].message.tool_calls) > 0

C10_ToolUseWins ==
    (convOut # ConvIdle /\ ConvHasToolCalls(convIn)) =>
       convOut.stop_reason = "tool_use"


----------------------------------------------------------------------------
\* The tool_use blocks of a block list and the tool calls of a canonical
\* message, each in order.
IsBlockOfType(item, type) == item.t = "obj" /\ Get(item.obj, "type") = JStr(type)

BlocksOfType(content, type) ==
    SelectSeq(content.list, LAMBDA item : IsBlockOfType(item, type))

ToolCallsOfMessage(msg) ==
    IF HasKey(msg, "tool_calls") THEN msg.tool_calls.list ELSE <<>>

ArgumentsOf(toolCall) == toolCall.obj.function.obj.arguments.str

\* the request holds one message of the given role whose content is a block
\* list, and it has been converted
ConvertedBlockList(role) ==
    /\ convIn.kind = "anthropic"
    /\ HasKey(convOut, "messages")
    /\ Len(convIn.messages) = 1
    /\ Get(convIn.messages[1], "role") = JStr(role)
    /\ Get(convIn.messages[1], "content").t = "list"

\* the number of leading messages the system text accounts for
SystemText ==
    IF convIn.kind = "anthropic" THEN ExtractSystemText(convIn.system)
    ELSE convIn.instructions
PrefixLen == IF SystemText # "" THEN 1 ELSE 0

\* C11: every tool call the Anthropic converter makes from a tool_use block has
\* arguments that are the text of a JSON object, and the text is {} when the
\* block's input is absent, null or no object.
C11_ArgumentsAreObjectText ==
    ConvertedBlockList("assistant") =>
        LET uses == BlocksOfType(convIn.messages[1].content, "tool_use")
            calls == ToolCallsOfMessage(convOut.messages[Len(convOut.messages)])
        IN /\ Len(calls) = Len(uses)
           /\ \A j \in 1..Len(calls) :
                /\ Unmarshal(ArgumentsOf(calls[j])).t = "obj"
                /\ Get(uses[j].obj, "input").t # "obj" =>
                       ArgumentsOf(calls[j]) = "{}"

----------------------------------------------------------------------------
\* C12: for a tool_use block whose input is a JSON object O, the tool call made
\* from it has the block's id and name, and its arguments parse back to O.
C12_ArgumentsRoundTrip ==
    ConvertedBlockList("assistant") =>
        LET uses == BlocksOfType(convIn.messages[1].content, "tool_use")
            calls == ToolCallsOfMessage(convOut.messages[Len(convOut.messages)])
        IN /\ Len(calls) = Len(uses)
           /\ \A j \in 1..Len(calls) :
                Get(uses[j].obj, "input").t = "obj" =>
                    /\ AsStr(Get(uses[j].obj, "id")) # "" =>
                           calls[j].obj.id = uses[j].obj.id
                    /\ calls[j].obj.id.str # ""
                    /\ calls[j].obj.function.obj.name = uses[j].obj.name
                    /\ Unmarshal(ArgumentsOf(calls[j])) = uses[j].obj.input

C12_Witness ==
    /\ ConvertedBlockList("assistant")
    /\ \E j \in 1..Len(convIn.messages[1].content.list) :
          LET item == convIn.messages[1].content.list[j]
          IN /\ IsBlockOfType(item, "tool_use")
             /\ Get(item.obj, "input") = JObj([b |-> JStr("a<b")])
    /\ Len(ToolCallsOfMessage(convOut.messages[Len(convOut.messages)])) = 2

----------------------------------------------------------------------------
\* C13: the normalizer turns the one-element list [{type, text: s}], for each
\* of the three text discriminants and every string s, into the bare string s;
\* a result of several parts, or of one part that is no text, stays a list.
TextDiscriminants == {"text", "input_text", "output_text"}

C13_CollapseRule ==
    (convIn.kind = "normalize" /\ HasKey(convOut, "content")
     /\ convIn.content.t = "list") =>
        LET items == convIn.content.list
            parts == NormalizeItems(items, 1)
        IN /\ (/\ Len(items) = 1
               /\ items[1].t = "obj"
               /\ AsStr(Get(items[1].obj, "type")) \in TextDiscriminants
               /\ Get(items[1].obj, "text").t = "str") =>
                  convOut.content = items[1].obj.text
           /\ (\/ Len(parts) > 1
               \/ (Len(parts) = 1 /\ parts[1].type # JStr("text"))) =>
                  convOut.content = PartList(parts)

C13_Witness ==
    /\ convIn.kind = "normalize"
    /\ convIn.content =
          JList(<<JObj([type |-> JStr("output_text"), text |-> JStr("")])>>)
    /\ HasKey(convOut, "content")
    /\ convOut.content = JStr("")


----------------------------------------------------------------------------
\* C14: the normalizer and the request converters return a defined value on
\* every input shape: the normalizer a string or a list of text and image
\* parts, the message converters a list of messages that each carry a role,
\* the tool converters nil or a non-empty list of named function tools; null,
\* the empty list, an item of unknown type, a non-object item and an empty tool
\* entry get their fallback values.
IsPart(p) ==
    /\ p.t = "obj"
    /\ Get(p.obj, "type") \in {JStr("text"), JStr("image_url")}
    /\ Get(p.obj, "type") = JStr("text") => Get(p.obj, "text").t = "str"

IsContent(c) ==
    \/ c.t = "str"
    \/ c.t = "list" /\ \A k \in 1..Len(c.list) : IsPart(c.list[k])

IsToolList(ts) ==
    \/ ts.t = "null"
    \/ /\ ts.t = "list"
       /\ Len(ts.list) > 0
       /\ \A k \in 1..Len(ts.list) :
            /\ ts.list[k].obj.type = JStr("function")
            /\ ts.list[k].obj.function.obj.name.t = "str"
            /\ ts.list[k].obj.function.obj.name.str # ""

C14_ConvertersTotal ==
    /\ (convIn.kind = "normalize" /\ HasKey(convOut, "content")) =>
          /\ IsContent(convOut.content)
          /\ convIn.content = JNull => convOut.content = JStr("")
          /\ convIn.content = JList(<<>>) => convOut.content = JList(<<>>)
          /\ convIn.content = JList(<<JObj([type |-> JStr("bogus")])>>) =>
                convOut.content = JStr("{\"type\":\"bogus\"}")
          /\ convIn.content = JList(<<JNum(3)>>) => convOut.content = JList(<<>>)
    /\ (convIn.kind \in {"anthropic", "responses"} /\ HasKey(convOut, "messages")) =>
          \A k \in 1..Len(convOut.messages) :
              /\ convOut.messages[k].role.t = "str"
              /\ convOut.messages[k].content.t \in {"str", "list", "null"}
    /\ (convIn.kind = "openai" /\ HasKey(convOut, "messages")) =>
          /\ Len(convOut.messages) = Len(convIn.messages)
          /\ \A k \in 1..Len(convOut.messages) : HasKey(convOut.messages[k], "role")
    /\ (convIn.kind = "tools" /\ HasKey(convOut, "anthropicTools")) =>
          /\ IsToolList(convOut.anthropicTools)
          /\ convIn.tools = <<JObj(EmptyObj)>> => convOut.anthropicTools = JNull
    /\ (convIn.kind = "tools" /\ HasKey(convOut, "openaiTools")) =>
          /\ IsToolList(convOut.openaiTools)
          /\ convIn.tools = <<JObj(EmptyObj)>> => convOut.openaiTools = JNull

C14_Witness ==
    /\ convIn.kind = "normalize"
    /\ convIn.content = JNull
    /\ HasKey(convOut, "content")

----------------------------------------------------------------------------
\* C15 as stated: ConvertOpenAIToCopilotMessages returns one message per input
\* message, in order, with the input's role; string content is unchanged and
\* any other content is what the Content Normalizer makes of it; tool_calls and
\* tool_call_id are copied when present and not null and are absent otherwise.
OpenAIMessageKeeps(o, i) ==
    /\ o.role = Get(i, "role")
    /\ HasKey(o, "content") <=> HasKey(i, "content")
    /\ \A k \in {"tool_calls", "tool_call_id"} :
          IF HasKey(i, k) /\ i[k] # JNull
          THEN HasKey(o, k) /\ o[k] = i[k]
          ELSE ~HasKey(o, k)

OpenAIConverted == convIn.kind = "openai" /\ HasKey(convOut, "messages")

C15_ContentNormalized ==
    OpenAIConverted =>
        /\ Len(convOut.messages) = Len(convIn.messages)
        /\ \A k \in 1..Len(convIn.messages) :
              LET i == convIn.messages[k]
                  o == convOut.messages[k]
              IN /\ OpenAIMessageKeeps(o, i)
                 /\ HasKey(i, "content") =>
                       o.content = IF i.content.t = "str" THEN i.content
                                   ELSE NormalizeContentForCopilot(i.content)

\* C15 as amended: string, list and null content are passed through unchanged
\* and any other content is replaced by its JSON text; the rest as stated.
C15_ContentPassedThrough ==
    OpenAIConverted =>
        /\ Len(convOut.messages) = Len(convIn.messages)
        /\ \A k \in 1..Len(convIn.messages) :
              LET i == convIn.messages[k]
                  o == convOut.messages[k]
              IN /\ OpenAIMessageKeeps(o, i)
                 /\ HasKey(i, "content") =>
                       /\ i.content.t \in {"str", "list", "null"} =>
                             o.content = i.content
                       /\ i.content = JNum(7) => o.content = JStr("7")
                       /\ i.content = JObj([a |-> JNum(1)]) =>
                             o.content = JStr("{\"a\":1}")
                       /\ o.content.t \in {"str", "list", "null"}

C15_Witness ==
    /\ OpenAIConverted
    /\ Len(convIn.messages) = 2
    /\ Get(convIn.messages[1], "role") = JStr("tool")
    /\ Get(convIn.messages[2], "content") =
          JList(<<JObj([type |-> JStr("text"), text |-> JStr("What")])>>)
    /\ convOut.messages[2].content = convIn.messages[2].content


----------------------------------------------------------------------------
\* C16: the Anthropic and the Responses request converters start the canonical
\* list with one system message carrying the system / instructions text exactly
\* when that text is non-empty; what follows is the conversion of the input
\* messages in input order, with no system message that no input message of
\* role system accounts for.
SystemRoleCount(msgs) ==
    Cardinality({k \in 1..Len(msgs) : Get(msgs[k], "role") = JStr("system")})

\* the input messages (Anthropic) or input items (Responses) of role system
InputSystemCount ==
    IF convIn.kind = "anthropic" THEN SystemRoleCount(convIn.messages)
    ELSE IF convIn.input.t = "list"
    THEN Cardinality({k \in 1..Len(convIn.input.list) :
                         /\ convIn.input.list[k].t = "obj"
                         /\ Get(convIn.input.list[k].obj, "role") = JStr("system")})
    ELSE 0

\* the conversion of the input alone
ConvertedWithoutSystem ==
    IF convIn.kind = "anthropic"
    THEN ConvertAnthropicToCopilotMessages(convIn.messages, "")
    ELSE ConvertResponsesInputToMessages(convIn.input, "")

C16_LeadingSystemMessage ==
    (convIn.kind \in {"anthropic", "responses"} /\ HasKey(convOut, "messages")) =>
        LET msgs == convOut.messages
        IN /\ Len(msgs) >= PrefixLen
           /\ SystemText # "" =>
                 msgs[1] = [role |-> JStr("system"), content |-> JStr(SystemText)]
           /\ SubSeq(msgs, PrefixLen + 1, Len(msgs)) = ConvertedWithoutSystem
           /\ SystemRoleCount(msgs) <= PrefixLen + InputSystemCount
           /\ (SystemText = "" /\ InputSystemCount = 0) => SystemRoleCount(msgs) = 0

C16_Witness ==
    /\ convIn.kind = "anthropic"
    /\ convIn.system.t = "list"
    /\ Len(convIn.messages) = 2
    /\ Get(convIn.messages[2], "role") = JStr("system")
    /\ HasKey(convOut, "messages")
    /\ Len(convOut.messages) = 3
    /\ convOut.messages[1] =
          [role |-> JStr("system"), content |-> JStr("Be\nbrief")]

----------------------------------------------------------------------------
\* C17: for a user message whose content is a block list, every tool_result
\* block becomes a tool-role message with the block's tool_use_id as
\* tool_call_id and the flattened text as content; these come first, in block
\* order, and one user message follows exactly when a text or image part
\* exists.
HasContentPart(content) ==
    \E k \in 1..Len(content.list) :
        LET item == content.list[k]
        IN \/ IsBlockOfType(item, "text")
           \/ /\ IsBlockOfType(item, "image")
              /\ Get(AsMap(Get(item.obj, "source")), "type") = JStr("base64")

C17_ToolResultsFirst ==
    ConvertedBlockList("user") =>
        LET content == convIn.messages[1].content
            results == BlocksOfType(content, "tool_result")
            msgs == SubSeq(convOut.messages, PrefixLen + 1, Len(convOut.messages))
            n == Len(results)
        IN /\ Len(msgs) = n + (IF HasContentPart(content) THEN 1 ELSE 0)
           /\ \A j \in 1..n :
                msgs[j] =
                    [role |-> JStr("tool"),
                     tool_call_id |-> JStr(AsStr(Get(results[j].obj, "tool_use_id"))),
                     content |->
                         JStr(extractTextContent(Get(results[j].obj, "content")))]
           /\ HasContentPart(content) => msgs[n + 1].role = JStr("user")

C17_Witness ==
    /\ ConvertedBlockList("user")
    /\ convIn.messages[1].content.list =
          <<JObj([type |-> JStr("text"), text |-> JStr("hi")]),
            JObj([type |-> JStr("tool_result"), tool_use_id |-> JStr("toolu_02"),
                  content |->
                      JList(<<JObj([type |-> JStr("text"), text |-> JStr("a")]),
                              JStr("b")>>)])>>
    /\ convOut.messages[Len(convOut.messages) - 1] =
          [role |-> JStr("tool"), tool_call_id |-> JStr("toolu_02"),
           content |-> JStr("a\nb")]
    /\ convOut.messages[Len(convOut.messages)] =
          [role |-> JStr("user"), content |-> JStr("hi")]


----------------------------------------------------------------------------
\* The entries ConvertAnthropicTools is to keep: objects with a non-empty name.
NamedEntries(tools) ==
    SelectSeq(tools, LAMBDA e : e.t = "obj" /\ AsStr(Get(e.obj, "name")) # "")

AnthropicToolsConverted == convIn.kind = "tools" /\ HasKey(convOut, "anthropicTools")

\* exactly the named entries are kept, in order, as function-typed tools, and
\* the result is nil when there is none
KeepsNamedEntries ==
    LET kept == NamedEntries(convIn.tools)
        res == convOut.anthropicTools
    IN IF Len(kept) = 0 THEN res = JNull
       ELSE /\ res.t = "list"
            /\ Len(res.list) = Len(kept)
            /\ \A k \in 1..Len(kept) :
                 /\ res.list[k].obj.type = JStr("function")
                 /\ res.list[k].obj.function.obj.name = kept[k].obj.name
                 /\ res.list[k].obj.function.obj.description =
                        JStr(AsStr(Get(kept[k].obj, "description")))

ParametersOf(tools, k) == tools.list[k].obj.function.obj.parameters

\* C18 as stated: ConvertAnthropicTools keeps, in order, exactly the entries
\* that are objects with a non-empty name, as function-typed tools whose
\* parameters are the entry's input_schema, or {type: object, properties: {}}
\* when input_schema is absent; the result is nil when nothing is kept.
C18_SchemaOrDefaultWhenAbsent ==
    AnthropicToolsConverted =>
        /\ KeepsNamedEntries
        /\ \A k \in 1..Len(NamedEntries(convIn.tools)) :
              LET entry == NamedEntries(convIn.tools)[k].obj
              IN ParametersOf(convOut.anthropicTools, k) =
                     IF HasKey(entry, "input_schema") THEN entry.input_schema
                     ELSE DefaultSchema

\* C18 as amended: the default schema also stands in when input_schema is null
\* or not an object.
C18_SchemaOrDefault ==
    AnthropicToolsConverted =>
        /\ KeepsNamedEntries
        /\ \A k \in 1..Len(NamedEntries(convIn.tools)) :
              LET entry == NamedEntries(convIn.tools)[k].obj
              IN ParametersOf(convOut.anthropicTools, k) =
                     IF HasKey(entry, "input_schema")
                        /\ entry.input_schema.t = "obj"
                     THEN entry.input_schema
                     ELSE JObj([type |-> JStr("object"),
                                properties |-> JObj(EmptyObj)])

C18_Witness ==
    /\ AnthropicToolsConverted
    /\ convIn.tools = <<JObj([name |-> JStr(""), description |-> JStr("x")]),
                        JObj([name |-> JStr("h"), input_schema |-> JNull])>>
    /\ Len(convOut.anthropicTools.list) = 1

----------------------------------------------------------------------------
\* C19: ConvertOpenAITools and filterFunctionTools return the same result on
\* every input: the entries that are objects of type function with an object
\* function field and a non-empty function name, in order, and nil when there
\* is none.
FunctionEntries(tools) ==
    SelectSeq(tools,
              LAMBDA e : /\ e.t = "obj"
                         /\ Get(e.obj, "type") = JStr("function")
                         /\ Get(e.obj, "function").t = "obj"
                         /\ Get(Get(e.obj, "function").obj, "name").t = "str"
                         /\ Get(Get(e.obj, "function").obj, "name").str # "")

IsFunctionEntries(res, kept) ==
    IF Len(kept) = 0 THEN res = JNull
    ELSE /\ res.t = "list"
         /\ Len(res.list) = Len(kept)
         /\ \A k \in 1..Len(kept) :
              /\ res.list[k].obj.type = JStr("function")
              /\ res.list[k].obj.function.obj.name = kept[k].obj.function.obj.name

C19_SameFilter ==
    /\ (convIn.kind = "tools" /\ HasKey(convOut, "openaiTools")) =>
          IsFunctionEntries(convOut.openaiTools, FunctionEntries(convIn.tools))
    /\ (convIn.kind = "tools" /\ HasKey(convOut, "filteredTools")) =>
          IsFunctionEntries(convOut.filteredTools, FunctionEntries(convIn.tools))
    /\ (/\ convIn.kind = "tools"
        /\ HasKey(convOut, "openaiTools")
        /\ HasKey(convOut, "filteredTools")) =>
          convOut.openaiTools = convOut.filteredTools

C19_Witness ==
    /\ convIn.kind = "tools"
    /\ Len(convIn.tools) = 2
    /\ Get(AsMap(convIn.tools[1]), "type") = JStr("retrieval")
    /\ HasKey(convOut, "openaiTools")
    /\ HasKey(convOut, "filteredTools")
    /\ convOut.openaiTools.t = "list"
    /\ Len(convOut.filteredTools.list) = 1

----------------------------------------------------------------------------
\* C20: convertToResponsesOutput returns the empty list when choices is empty;
\* otherwise one message entry exactly when the content is a non-empty string,
\* then one function_call entry per upstream tool call, in order, each with a
\* non-empty id and with the upstream arguments, or {} when they are empty or
\* absent.
UpstreamChoices ==
    IF Get(AsMap(convIn.resp), "choices").t = "list"
    THEN convIn.resp.obj.choices.list ELSE <<>>

UpstreamMessage == AsMap(Get(AsMap(UpstreamChoices[1]), "message"))

UpstreamCalls ==
    IF Get(UpstreamMessage, "tool_calls").t = "list"
    THEN UpstreamMessage.tool_calls.list ELSE <<>>

C20_ResponsesOutput ==
    (convIn.kind = "upstream" /\ HasKey(convOut, "panicked")) =>
        /\ ~convOut.panicked
        /\ IF Len(UpstreamChoices) = 0 THEN convOut.output = <<>>
           ELSE LET content == AsStr(Get(UpstreamMessage, "content"))
                    p == IF content # "" THEN 1 ELSE 0
                    o == convOut.output
                IN /\ Len(o) = p + Len(UpstreamCalls)
                   /\ p = 1 =>
                         o[1] = [type |-> "message", role |-> "assistant",
                                 content |-> <<[type |-> "output_text",
                                                text |-> content]>>]
                   /\ \A k \in 1..Len(UpstreamCalls) :
                        LET function == AsMap(Get(AsMap(UpstreamCalls[k]),
                                                  "function"))
                            args == AsStr(Get(function, "arguments"))
                        IN /\ o[p + k].type = "function_call"
                           /\ o[p + k].id # ""
                           /\ o[p + k].name = AsStr(Get(function, "name"))
                           /\ o[p + k].arguments =
                                  IF args = "" THEN "{}" ELSE args

(***************************************************************************)
(* Properties of the HTTP front end (SpecHTTP)                             *)
(***************************************************************************)
\* the request has been answered (or its handler has panicked)
Answered == served.pc \in {"done", "panicked"}

GenerationRoutes == {"chat", "responses", "messages"}

\* The body as a whole is one JSON text.
ParsesAsJSON(body) == body.first \in {"object", "mistyped"} /\ body.rest = ""

StreamingHeaders ==
    {<<"Content-Type", "text/event-stream">>, <<"Cache-Control", "no-cache">>,
     <<"Connection", "keep-alive">>, <<"X-Accel-Buffering", "no">>}

NoStreamOutput ==
    /\ response.headers \cap StreamingHeaders = {}
    /\ \A i \in DOMAIN response.body : response.body[i] # "events"

\* C21: a request body that does not parse as JSON is answered with 400 by
\* each of the four handlers, with no upstream call, no telemetry record and
\* no streaming header or event.
C21_MalformedBodyRejected ==
    (Answered /\ served.handler # "none" /\ ~ParsesAsJSON(request.body))
        => /\ response.status = 400
           /\ upstreamCalls = <<>>
           /\ tracked = <<>>
           /\ NoStreamOutput

\* the upstream failures of the request's non-streaming calls
FailedCalls ==
    {i \in DOMAIN upstreamCalls :
        /\ upstreamCalls[i].call = "ChatCompletions"
        /\ upstreamCalls[i].result.kind # "ok"}

C23_NoFlusherNoStream ==
    (/\ Answered
     /\ served.handler \in GenerationRoutes
     /\ request.body.first = "object"
     /\ request.body.stream
     /\ ~request.flusher)
        => /\ response.status = 500
           /\ response.body = <<"Streaming not supported">>
           /\ NoStreamOutput
           /\ upstreamCalls = <<>>

C23_Witness ==
    /\ served.pc = "done"
    /\ served.handler \in GenerationRoutes
    /\ request.body.first = "object"
    /\ request.body.stream
    /\ ~request.flusher
    /\ response.status = 500

\* The request carries the configured key in one of the two accepted forms.
CarriesKey ==
    \/ request.authorization = <<"Bearer ">> \o server.apiKey
    \/ request.xApiKey = server.apiKey

\* C26: with an API key configured, only a request whose Authorization
\* header is exactly "Bearer " followed by the key, or whose X-API-Key header
\* is the key, gets past the middleware; every other request is answered 401
\* and neither the CORS layer nor a route handler runs.  With no key
\* configured every request is passed on, and every POST runs its handler.
C26_ApiKeyGate ==
    /\ (server.apiKey # <<>> /\ (served.cors \/ served.handler # "none"))
          => CarriesKey
    /\ (server.apiKey # <<>> /\ ~CarriesKey /\ served.pc # "middleware")
          => /\ served = [pc |-> "done", cors |-> FALSE, handler |-> "none"]
             /\ response.status = 401
             /\ upstreamCalls = <<>>
    /\ (server.apiKey = <<>> /\ Answered)
          => /\ served.cors
             /\ response.status # 401
             /\ (request.method = "POST" => served.handler = request.route)

C26_Witness ==
    /\ server.apiKey # <<>>
    /\ request.authorization = <<"Bearer ">> \o server.apiKey
    /\ request.xApiKey # server.apiKey
    /\ served.handler # "none"

(***************************************************************************)
(* Properties of the telemetry client (SpecTelemetry)                      *)
(***************************************************************************)
\* every event of a batch handed to sendBatch, and of those whose call ended
SendEvents(states) ==
    UNION {{send.events[i] : i \in DOMAIN send.events} :
              send \in {x \in sends : x.state \in states}}

\* events offered that are neither queued, batched nor handed to sendBatch
Dropped ==
    (1..Offered) \ (Pending \cup SendEvents({"started", "sent", "failed"}))

\* a step that is one call of Client.Track
TrackStep == clientCalls'.Track = clientCalls.Track + 1

\* C24: a Track call can always be made and completes in one step whatever
\* the queue and the worker hold; it leaves the worker alone, leaves a full
\* queue as it is (the event is dropped) and otherwise, on an enabled
\* client, appends the event at the tail of the queue.
C24_TrackNeverBlocks ==
    [][/\ (CallsMade < MaxCalls => ENABLED Track)
       /\ TrackStep =>
            /\ <<worker, sends, ingested, shutdown>>'
                  = <<worker, sends, ingested, shutdown>>
            /\ (Len(langfuse.events) >= QueueCap
                   => langfuse'.events = langfuse.events)
            /\ (langfuse.enabled /\ Len(langfuse.events) < QueueCap
                   => langfuse'.events = Append(langfuse.events, Offered + 1))
            /\ langfuse'.events \in
                  {langfuse.events, Append(langfuse.events, Offered + 1)}
            /\ Len(langfuse'.events) <= QueueCap]_vars

C24_Witness ==
    /\ langfuse.enabled
    /\ clientCalls.Track = QueueCap + 1
    /\ Len(langfuse.events) = QueueCap
    /\ Dropped = {QueueCap + 1}

\* C25: once Shutdown has returned, the sendBatch call of every event that
\* was in the queue or in the worker's batch when Shutdown was called has
\* completed.
C25_ShutdownFlushesPending ==
    shutdown.pc = "returned"
        => shutdown.pending \subseteq SendEvents({"sent", "failed"})

\* C29: a client built from a configuration that is switched off or lacks a
\* key is disabled and stays so whatever is called on it: nothing is queued,
\* batched or sent, no worker runs, Shutdown does not wait and nothing
\* panics.
C29_DisabledStaysDisabled ==
    (\/ ~langfuse.cfg.Enabled
     \/ langfuse.cfg.PublicKey = ""
     \/ langfuse.cfg.SecretKey = "")
        => /\ ~langfuse.enabled
           /\ ~langfuse.panicked
           /\ langfuse.events = <<>>
           /\ langfuse.done = "nil"
           /\ worker = [pc |-> "none", batch |-> <<>>]
           /\ sends = {}
           /\ ingested = {}
           /\ shutdown.pc = "idle"
           /\ now = 0

C29_Witness ==
    /\ langfuse.cfg.Enabled
    /\ langfuse.cfg.SecretKey = ""
    /\ clientCalls.Track + clientCalls.TrackGeneration >= 1
    /\ clientCalls.Flush >= 1
    /\ clientCalls.Shutdown >= 1
    /\ ~langfuse.enabled

(***************************************************************************)
(* Properties of the token and the models cache (SpecCopilot)              *)
(***************************************************************************)
\* C27: GetCopilotToken returns the stored token without an upstream request
\* exactly when that token is non-empty and expires later than five minutes
\* from now; otherwise it asks for a new token and, when it returns one, the
\* credentials hold it with the expiry in milliseconds and the credentials
\* file holds the same.
C27_TokenReuseOrRefresh ==
    ret.op = "GetCopilotToken" =>
        LET valid == /\ ret.had.CopilotToken # ""
                     /\ ret.had.CopilotExpires > ret.at + 5 * 60 * 1000
        IN  /\ valid <=> fetches = <<>>
            /\ valid => /\ ret.token = ret.had.CopilotToken
                        /\ ret.err = "nil"
                        /\ creds = ret.had
            /\ ~valid => fetches = <<"token">>
            /\ (~valid /\ ret.err = "nil")
                  => /\ creds.CopilotToken = ret.token
                     /\ creds.CopilotExpires \in {300 * 1000, 900 * 1000}
                     /\ credsFile = creds
            /\ ret.err # "nil" => ret.token = ""

C27_Witness ==
    /\ ret.op = "GetCopilotToken"
    /\ ret.had.CopilotToken # ""
    /\ ret.had.CopilotExpires > ret.at
    /\ fetches = <<"token">>
    /\ ret.err = "nil"
    /\ creds.CopilotToken = "tok2"
    /\ credsFile = creds

\* C28: FetchModels returns the cached list without an upstream request
\* while a cache exists and is younger than 300 seconds; otherwise a failed
\* refresh returns the fallback list with a nil error and leaves the cache
\* and its time as they were, and only a successful refresh replaces them.
C28_CacheOrFallback ==
    ret.op = "FetchModels" =>
        LET fresh == ret.had.set /\ (ret.at - ret.had.time) < 300 * 1000
        IN  /\ fresh => /\ ret.models = ret.had.list
                        /\ ret.err = "nil"
                        /\ fetches = <<>>
                        /\ modelsCache = ret.had
            /\ (~fresh /\ ret.failed)
                  => /\ ret.models = FallbackModels
                     /\ ret.err = "nil"
                     /\ modelsCache = ret.had
            /\ (~fresh /\ ~ret.failed)
                  => /\ modelsCache = [set |-> TRUE, list |-> ret.models,
                                       time |-> ret.at]
                     /\ fetches # <<>>
            /\ modelsCache # ret.had => ~fresh /\ ~ret.failed

C28_Witness ==
    /\ ret.op = "FetchModels"
    /\ ret.had.set
    /\ ret.at - ret.had.time >= 300 * 1000
    /\ ret.failed
    /\ ret.models = FallbackModels
    /\ modelsCache = ret.had

(***************************************************************************)
(* Properties of the chat relayer's id and created (Spec)                  *)
(***************************************************************************)
\* the upstream chunks the relayer forwards, and the chunks it wrote
ForwardedChunks ==
    SelectSeq(lines, LAMBDA l : l.kind = "data" /\ l.json /\ ~HasKey(l.chunk, "null"))

WrittenChunks == SelectSeq(out, LAMBDA e : e.type = "data")

\* the chunk has a value for k that is not JSON null
HasValue(chunk, k) ==
    /\ k \in DOMAIN chunk
    /\ ("nullkeys" \in DOMAIN chunk => k \notin chunk.nullkeys)

NullKeysOf(chunk) == IF "nullkeys" \in DOMAIN chunk THEN chunk.nullkeys ELSE {}

\* C30: in one chat stream every id injected into a chunk that lacks one is
\* the same value, and so is every injected created; a chunk that has a
\* non-null id or created keeps it; and every other field of a written chunk
\* is the upstream chunk's.
C30_OneIdPerStream ==
    handler = "chat" =>
        /\ Len(WrittenChunks) = Len(ForwardedChunks)
        /\ \A i \in DOMAIN ForwardedChunks :
              LET up == ForwardedChunks[i].chunk
                  dn == WrittenChunks[i].chunk
                  others == DOMAIN up \ {"id", "created", "nullkeys"}
              IN  /\ HasValue(dn, "id") /\ HasValue(dn, "created")
                  /\ (HasValue(up, "id") => dn.id = up.id)
                  /\ (HasValue(up, "created") => dn.created = up.created)
                  /\ DOMAIN dn \ {"id", "created", "nullkeys"} = others
                  /\ \A k \in others : dn[k] = up[k]
                  /\ NullKeysOf(dn) = NullKeysOf(up) \ {"id", "created"}
        /\ \A i, j \in DOMAIN ForwardedChunks :
              /\ (~HasValue(ForwardedChunks[i].chunk, "id")
                    /\ ~HasValue(ForwardedChunks[j].chunk, "id"))
                    => WrittenChunks[i].chunk.id = WrittenChunks[j].chunk.id
              /\ (~HasValue(ForwardedChunks[i].chunk, "created")
                    /\ ~HasValue(ForwardedChunks[j].chunk, "created"))
                    => WrittenChunks[i].chunk.created
                          = WrittenChunks[j].chunk.created

C30_Witness ==
    /\ handler = "chat"
    /\ Len(ForwardedChunks) = 3
    /\ ForwardedChunks[1].chunk = NullIdChunk
    /\ ForwardedChunks[2].chunk = OwnIdChunk
    /\ ~HasValue(ForwardedChunks[3].chunk, "id")
    /\ "id" \notin DOMAIN ForwardedChunks[3].chunk
    /\ WrittenChunks[2].chunk.id = "up-1"

(***************************************************************************)
(* Responses stream: the text of the closing events                        *)
(***************************************************************************)
\* the delta fields of the response.output_text.delta events of a sequence
\* of events, concatenated in emission order
RECURSIVE DeltasOf(_, _)
DeltasOf(events, i) ==
    IF i > Len(events) THEN ""
    ELSE IF events[i].type = "response.output_text.delta"
         THEN events[i].delta \o DeltasOf(events, i + 1)
         ELSE DeltasOf(events, i + 1)

TextDoneTypes ==
    {"response.output_text.done", "response.content_part.done",
     "response.output_item.done", "response.completed"}

\* C31: in a Responses stream each of response.output_text.done,
\* response.content_part.done, response.output_item.done and
\* response.completed carries the concatenation, in emission order, of the
\* delta fields of all response.output_text.delta events of the stream, and
\* a finished stream has exactly one of each.
C31_DoneTextIsDeltas ==
    handler = "responses" =>
      /\ \A i \in 1..Len(out) :
            out[i].type \in TextDoneTypes => out[i].text = DeltasOf(out, 1)
      /\ pc = "done" => \A t \in TextDoneTypes : CountType(out, t) = 1

C31_Witness ==
    /\ handler = "responses" /\ pc = "done"
    /\ CountType(out, "response.output_text.delta") = 2
    /\ out[Len(out)].text = "Hello"

(***************************************************************************)
(* Anthropic and Responses streams: lines the callback ignores             *)
(***************************************************************************)
\* the line the step has read
LineRead == Len(lines') = Len(lines) + 1
ReadLine == lines'[Len(lines')]

\* a line without the "data: " prefix, the [DONE] sentinel, or a payload that
\* is not valid JSON
Skippable(l) ==
    \/ l.kind \in {"other", "done"}
    \/ l.kind = "data" /\ ~l.json

\* C32: in the Anthropic and Responses sequencers a line that lacks the
\* "data: " prefix, is the [DONE] sentinel or carries invalid JSON emits no
\* event, leaves the whole accumulator unchanged and the read loop goes on.
C32_IgnoredLinesChangeNothing ==
    [][(handler \in {"anthropic", "responses"} /\ LineRead /\ Skippable(ReadLine))
         => /\ out' = out
            /\ UNCHANGED <<contentBlockIndex, hasTextContent, toolCallsInProgress,
                           stopReason, usageData, fullText>>
            /\ pc' = "read" /\ err' = err]_vars

C32_Witness ==
    /\ handler \in {"anthropic", "responses"} /\ pc = "read"
    /\ lines = <<RawJSONLine, BadJSONLine, DataLine(TextChunk("Hel"))>>
    /\ out[Len(out)].type \in {"content_block_delta", "response.output_text.delta"}
    /\ Len(out) \in {3, 4}

(***************************************************************************)
(* Anthropic stream: the block a delta is emitted against                  *)
(***************************************************************************)
\* the position of the most recent content_block_start with index idx before
\* position i of the events, 0 when there is none
RECURSIVE StartOf(_, _, _)
StartOf(events, i, idx) ==
    IF i <= 1 THEN 0
    ELSE IF events[i - 1].type = "content_block_start" /\ events[i - 1].index = idx
         THEN i - 1
         ELSE StartOf(events, i - 1, idx)

IsTextDelta(e) == e.type = "content_block_delta" /\ e.delta = "text_delta"
IsInputJSONDelta(e) == e.type = "content_block_delta" /\ e.delta = "input_json_delta"

\* C33: in an Anthropic stream every text_delta carries an index whose most
\* recent content_block_start declared a text block; none is emitted against
\* the index of a tool_use block.
C33_TextDeltaInTextBlock ==
    handler = "anthropic" =>
      \A i \in 1..Len(out) :
         IsTextDelta(out[i]) =>
            /\ StartOf(out, i, out[i].index) # 0
            /\ out[StartOf(out, i, out[i].index)].block = "text"

\* the upstream array index of the tool call a tool_use block was opened
\* for: the ids of the upstream tool calls name their index
UpstreamIndexOf(id) ==
    CASE id = "t1" -> 0
      [] id = "t2" -> 1
      [] OTHER -> 2

\* the continuation fragments of the lines read so far, in order: the
\* upstream index of each entry of delta.tool_calls that has no id and
\* non-empty arguments
RECURSIVE FragmentsOfEntries(_, _)
FragmentsOfEntries(tcs, i) ==
    IF i > Len(tcs) THEN <<>>
    ELSE (IF StrOr(tcs[i], "id") = "" /\ StrOr(ObjOr(tcs[i], "function"), "arguments") # ""
          THEN <<tcs[i].index>> ELSE <<>>) \o FragmentsOfEntries(tcs, i + 1)

\* C34: in an Anthropic stream every input_json_delta carries the index of
\* the content block that the content_block_start of its own tool call
\* opened, also when fragments of several started tool calls interleave:
\* the most recent content_block_start with the delta's index is a tool_use
\* block, and it is the block of the tool call whose fragment the last line
\* read carried.
C34_FragmentInOwnBlock ==
    [][(handler = "anthropic" /\ LineRead /\ Len(out') > Len(out)
          /\ IsInputJSONDelta(out'[Len(out')])) =>
         LET e == out'[Len(out')]
             start == StartOf(out', Len(out'), e.index)
             tcs == ReadLine.chunk.choices[1].delta.tool_calls
             frags == FragmentsOfEntries(tcs, 1)
         IN /\ start # 0
            /\ out'[start].block = "tool_use"
            /\ UpstreamIndexOf(out'[start].id) = frags[Len(frags)]]_vars

(***************************************************************************)
(* Anthropic: the stop reason of a stream and of the converted result      *)
(***************************************************************************)
\* the finish reasons the chunks of the lines read carried
FinishReasonsSeen ==
    {StrOr(lines[i].chunk.choices[1], "finish_reason") :
        i \in {j \in 1..Len(lines) :
                 /\ IsChunk(lines[j])
                 /\ HasKey(lines[j].chunk, "choices")
                 /\ Len(lines[j].chunk.choices) > 0
                 /\ IsObject(lines[j].chunk.choices[1])}} \ {""}

\* the tool calls the stream started, in the order of their upstream index,
\* as the message of a non-streaming result lists them
RECURSIVE StartedToolCalls(_)
StartedToolCalls(indexes) ==
    IF indexes = {} THEN <<>>
    ELSE LET i == CHOOSE k \in indexes : \A m \in indexes : k <= m
             tc == toolCallsInProgress[i]
         IN <<[id |-> tc.id,
               function |-> [name |-> tc.name, arguments |-> tc.arguments]]>>
            \o StartedToolCalls(indexes \ {i})

\* the non-streaming result with the stream's finish reason and tool calls
SameResult(fr) ==
    [choices |-> <<[message |-> [tool_calls |->
                                    StartedToolCalls(DOMAIN toolCallsInProgress)],
                    finish_reason |-> fr]>>]

\* C35: for the same upstream finish_reason and the same presence of tool
\* calls, the stop_reason of the streaming message_delta equals the
\* stop_reason ConvertOpenAIResponseToAnthropic gives the non-streaming
\* result.
C35_SameStopReason ==
    (handler = "anthropic" /\ pc = "done" /\ err = "nil"
       /\ Cardinality(FinishReasonsSeen) = 1) =>
      \A fr \in FinishReasonsSeen :
        \A i \in 1..Len(out) :
          out[i].type = "message_delta" =>
            out[i].stop_reason = ConvertOpenAIResponseToAnthropic(SameResult(fr)).stop_reason

(***************************************************************************)
(* Anthropic and Responses streams: chunks of an unexpected shape          *)
(***************************************************************************)
\* C36: in the Anthropic and Responses sequencers the step on a chunk that
\* is valid JSON, whatever its shape, completes: the handler is not aborted
\* and stays in the read loop, from which the End sequence is emitted.
C36_ChunkStepCompletes ==
    [][(handler \in {"anthropic", "responses"} /\ LineRead /\ IsChunk(ReadLine))
         => pc' = "read"]_vars

(***************************************************************************)
(* Non-streaming handlers: an upstream result without usage                *)
(***************************************************************************)
\* the successful non-streaming upstream calls whose result carries no usage
CallsWithoutUsage ==
    {i \in DOMAIN upstreamCalls :
        /\ upstreamCalls[i].call = "ChatCompletions"
        /\ upstreamCalls[i].result.kind = "ok"
        /\ ~upstreamCalls[i].result.usage}

\* C37: a successful non-streaming upstream result without a usage object is
\* still answered by the chat-completions, messages and responses handlers
\* with a 200 JSON response; the handler is not aborted.
C37_NoUsageStillAnswered ==
    CallsWithoutUsage # {} =>
        /\ served.pc = "done"
        /\ served.handler \in GenerationRoutes
        /\ response.status = 200
        /\ <<"Content-Type", "application/json">> \in response.headers
        /\ response.body = <<"converted">>

(***************************************************************************)
(* Telemetry: what TrackGeneration and Track leave in the queue            *)
(***************************************************************************)
TrackGenerationStep ==
    clientCalls'.TrackGeneration = clientCalls.TrackGeneration + 1

\* C38: one call of TrackGeneration enqueues both its trace-create event and
\* its generation-create event, the trace first and the generation right
\* after it, or neither of them, whatever the occupancy of the queue.
C38_BothOrNeither ==
    [][TrackGenerationStep =>
         \/ langfuse'.events = langfuse.events
         \/ langfuse'.events = langfuse.events \o <<Offered + 1, Offered + 2>>]_vars

\* the events of the batches handed to sendBatch, batch by batch
SentEvents == {send.events : send \in sends}

\* C39: every event Track accepted ends in exactly one batch handed to
\* sendBatch, the batches keep the queue's order, no event is sent twice, and
\* once the worker has exited no accepted event is left in the queue or in
\* the worker's batch.
C39_AcceptedSentOnce ==
    /\ \A b \in SentEvents :
          \A i, j \in DOMAIN b : i < j => b[i] < b[j]
    /\ \A b1, b2 \in SentEvents :
          b1 # b2 => \A i \in DOMAIN b1, j \in DOMAIN b2 : b1[i] # b2[j]
    /\ worker.pc = "exited" => Pending = {}

(***************************************************************************)
(* Properties of the Manager under concurrent requests (SpecManager)       *)
(***************************************************************************)
\* the token and expiry that one load or one refresh produced together
IssuedPairs ==
    LoadedCredentials
        \cup {[CopilotToken |-> TokenResponse(r).Token,
                CopilotExpires |-> TokenResponse(r).ExpiresAt * 1000] : r \in Callers}

\* the token and the expiry request r has read for its validity test
ObservedPair(r) ==
    [CopilotToken |-> reqs[r].token, CopilotExpires |-> reqs[r].expires]

\* two requests are about to access the same field, one of them to write
\* it, and neither holds m.mu
RacingAccess ==
    \E r1, r2 \in Callers :
        /\ r1 # r2
        /\ ~Holds(r1) /\ ~Holds(r2)
        /\ \/ reqs[r1].pc = "WriteToken" /\ reqs[r2].pc \in {"ReadToken", "ReturnToken"}
           \/ reqs[r1].pc = "WriteExpires" /\ reqs[r2].pc = "ReadExpires"
           \/ reqs[r1].pc = reqs[r2].pc /\ reqs[r1].pc \in {"WriteToken", "WriteExpires"}

\* C40: with several requests on one Manager every read and write of the
\* shared credentials' CopilotToken and CopilotExpires is made while m.mu is
\* held, no request tests a token together with the expiry of another
\* refresh, and no two requests reach an access of the same field, one of
\* them a write, without the lock.
C40_FieldsUnderLock ==
    /\ \A r \in Callers : \A a \in reqs[r].accessed : a.locked
    /\ \A r \in Callers :
          reqs[r].pc \in {"ReturnToken", "TokenRequest"}
              => ObservedPair(r) \in IssuedPairs
    /\ ~RacingAccess


====
